---- MODULE Spec2Model ----
(***************************************************************************)
(* Session and authentication state machine of SecureCart's API backend:   *)
(* the Redis-backed session store, the typed session variants and their    *)
(* promotion, the authentication services, the session middleware, the     *)
(* onboarding commit and the bruteforce guard.                             *)
(*                                                                         *)
(* Every Redis command and every SQL statement that writes is one atomic   *)
(* step of the handler that issues it; queries that only read are taken    *)
(* together with the step they precede.  Handlers of different requests    *)
(* interleave freely between steps and may stop at any of them (a command  *)
(* fails, the request is cancelled).                                       *)
(***************************************************************************)
EXTENDS Integers, Sequences, FiniteSets, TLC

(***************************************************************************)
(* Bounds of the model.                                                    *)
(***************************************************************************)
MaxTokens == 6      \* distinct values generate_token can draw
MaxRequests == 2    \* requests followed from their arrival
MaxUsers == 2       \* rows the appuser table can ever hold
MaxCalls == 6       \* bruteforce_timeout calls followed per client

Procs == {"h1", "h2"}            \* request handlers in flight
Tokens == 1..MaxTokens
UserIds == 1..MaxUsers

(***************************************************************************)
(* Program constants.                                                      *)
(***************************************************************************)
SESSION_TIMEOUT == 604800
PREAUTH_SESSION_TIMEOUT == 300
REGISTRATION_SESSION_TIMEOUT == 600
ADMIN_SESSION_TIMEOUT == 7200
AUTH_TIMEOUT_ATTEMPTS == 5
AUTH_TIMEOUT_PERIOD == 10
AUTH_PENALTY_PERIOD == 60
PASSWORD_MIN_LENGTH == 8
PASSWORD_MAX_LENGTH == 128
STATUS_CODE_BAD_CSRF == 419

(***************************************************************************)
(* Optional values (Rust Option, a Redis nil reply): a set with at most    *)
(* one element.                                                            *)
(***************************************************************************)
None == {}
Some(x) == {x}
IsSome(o) == o # {}
Unwrap(o) == CHOOSE x \in o : TRUE

(***************************************************************************)
(* Request inputs.  An email is the sequence of its characters, so that    *)
(* the LIKE '%email%' match of AppUser::search is a real substring test.   *)
(***************************************************************************)
EmailA == <<"a", "@", "x">>
EmailBA == <<"b", "a", "@", "x">>
Emails == {EmailA, EmailBA}
Passwords == {"pw7", "pw8", "pw129"}
PasswordLen(pw) == CASE pw = "pw7" -> 7 [] pw = "pw8" -> 8 [] pw = "pw129" -> 129
Codes == {"current", "stale"}
Names == {"", "n"}
Roles == {"Customer", "Administrator"}
SessionTypes == {"PreAuthentication", "Authenticated", "Registration"}

\* a to_parent_key_name that gives two kinds one prefix
to_parent_key_nameShared(session_type) ==
    CASE session_type = "PreAuthentication" -> "sessions:preauthentication"
      [] session_type = "Authenticated" -> "sessions:preauthentication"
      [] session_type = "Registration" -> "sessions:registration"
\* SessionType::to_parent_key_name
to_parent_key_name(session_type) ==
    CASE session_type = "PreAuthentication" -> "sessions:preauthentication"
      [] session_type = "Authenticated" -> "sessions:authenticated"
      [] session_type = "Registration" -> "sessions:registration"

ParentKeys == {to_parent_key_name(k) : k \in SessionTypes}
Keys == ParentKeys \X Tokens

\* format!("{}:{token}", session_type.to_parent_key_name())
KeyOf(session_type, token) == <<to_parent_key_name(session_type), token>>

(***************************************************************************)
(* A Redis hash.  A key exists iff its hash has a field; ttl = 0 is a key  *)
(* without expiry.  made is history only (never read by any operation):    *)
(* which create wrote the first field of the key, for which constructor    *)
(* (via), from which pre-authentication token (src), whether the user had  *)
(* a second factor at the password check (totp0) and has passed it (mfa),  *)
(* how many creates have returned Ok for the key (won), and whether        *)
(* authenticate_2fa has answered Failure for the session, or for the       *)
(* pre-authentication session it was promoted from (tried).                *)
(***************************************************************************)
NotMade == [kind |-> "none", via |-> "none", src |-> 0, totp0 |-> FALSE, mfa |-> FALSE,
            won |-> 0, tried |-> FALSE]
NoHash == [user_id |-> None, admin |-> None, csrf |-> None, email |-> None,
           forename |-> None, surname |-> None, address |-> None,
           ttl |-> 0, made |-> NotMade]
HashFields == {"user_id", "admin", "csrf", "email", "forename", "surname", "address"}

\* EXISTS key
Exists(s, key) == \E f \in HashFields : IsSome(s[key][f])
\* HGET key field
Hget(s, key, field) == s[key][field]
\* HSET key field value
Hset(s, key, field, val) == [s EXCEPT ![key][field] = Some(val)]
\* HSETNX key field value
HsetNx(s, key, field, val) ==
    IF IsSome(s[key][field]) THEN s ELSE Hset(s, key, field, val)
\* a DEL that removes nothing
DelNothing(s, key) == s
\* DEL key
Del(s, key) == [s EXCEPT ![key] = NoHash]
\* EXPIRE key seconds: no effect on a key that does not exist
ExpireKey(s, key, seconds) ==
    IF Exists(s, key) THEN [s EXCEPT ![key].ttl = seconds] ELSE s

VARIABLES
    store,      \* session store: Keys -> hash
    users,      \* appuser table: UserIds -> Option of row
    password,   \* password table: UserIds -> Option of password
    totp,       \* totp table: UserIds -> BOOLEAN (a secret is stored)
    lastId,     \* the last id the appuser table gave to a row
    pc,         \* position of every handler
    loc,        \* locals of every handler
    out,        \* the response the latest step ended a request with, if it did
    drawn,      \* how many values generate_token has drawn so far
    issued,     \* the session and session_csrf cookies handed to clients
    arrived,    \* how many requests have arrived so far
    bf,         \* bruteforce counter of the client: [count, ttl]
    clock,      \* bruteforce guard's history: [calls, since, last, expired]
    token_buf,  \* generate_token: the random bytes the fold has yet to take
    acc         \* generate_token: the string the fold has built so far

vars == <<store, users, password, totp, lastId, pc, loc, out, drawn, issued, arrived,
          bf, clock, token_buf, acc>>
dbvars == <<users, password, totp, lastId>>
guardvars == <<bf, clock>>
rngvars == <<token_buf, acc>>

(***************************************************************************)
(* Values held by a handler.                                               *)
(***************************************************************************)
\* store::SessionInfo: the variant (kind), its csrf token and its data
NoInfo == [kind |-> "none", user_id |-> 0, admin |-> FALSE, csrf |-> 0,
           email |-> <<>>, forename |-> "", surname |-> "", address |-> ""]
PreAuthenticationInfo(csrf, user_id) ==
    [NoInfo EXCEPT !.kind = "PreAuthentication", !.csrf = csrf, !.user_id = user_id]
AuthenticatedInfo(csrf, user_id, admin) ==
    [NoInfo EXCEPT !.kind = "Authenticated", !.csrf = csrf, !.user_id = user_id,
                   !.admin = admin]
RegistrationInfo(csrf, user_data) ==
    [NoInfo EXCEPT !.kind = "Registration", !.csrf = csrf, !.email = user_data.email,
                   !.forename = user_data.forename, !.surname = user_data.surname,
                   !.address = user_data.address]

\* BaseSession { token, session_info }
NoSession == [token |-> 0, session_info |-> NoInfo]
BaseSession(token, session_info) == [token |-> token, session_info |-> session_info]

\* The X-CSRF-Token header of a request: absent, not visible ASCII, or a value
NoHeader == [present |-> FALSE, ascii |-> TRUE, value |-> 0]
NonAsciiHeader == [present |-> TRUE, ascii |-> FALSE, value |-> 0]
AsciiHeader(v) == [present |-> TRUE, ascii |-> TRUE, value |-> v]

\* the locals of a handler; ip is the X-Real-IP header and email the email of
\* a login request; retried is history, kept for a direct call of
\* BaseSession::create: its loop has gone round after a Duplicate
Idle == [op |-> "none", ip |-> NoHeader, email |-> <<>>, pw |-> "", code |-> "", uid |-> 0,
         role |-> "none",
         sess |-> NoSession, info |-> NoInfo, cand |-> 0, caller |-> "none",
         totp0 |-> FALSE, mfa |-> FALSE, tried |-> FALSE, attempts |-> 0, nth |-> 0,
         retried |-> FALSE]
\* what the latest step let its client see: the operation, its result, the
\* session returned (session), the session consumed (old), the header the
\* request carried (hdr), the ordinal of a bruteforce_timeout call (nth), the
\* email, password and code of a credential that was answered Failure, and
\* the number of keys a delete's DEL removed (removed; the code reads the
\* reply as () and the client never sees it)
NoOut == [op |-> "none", status |-> "none", http |-> 0, session |-> NoSession,
          old |-> NoSession, hdr |-> NoHeader, nth |-> 0, email |-> <<>>, pw |-> "",
          code |-> "", removed |-> 0]

(***************************************************************************)
(* generate_token: 24 bytes of the CSPRNG.  A draw is a value never drawn  *)
(* before (drawn counts them; values are interchangeable, so the next one  *)
(* is taken), or, for a session token, the case BaseSession::create's loop *)
(* exists for: the token of a key present in the namespace the candidate   *)
(* is for.  (The race of two creates on one candidate is SpecCreate's      *)
(* subject.)                                                               *)
(***************************************************************************)
CanDraw == drawn < MaxTokens
generate_token == drawn + 1
Colliding(session_type) == {t \in Tokens : Exists(store, KeyOf(session_type, t))}

(***************************************************************************)
(* Connection::get_info and the three readers under it.  The HGETs of one  *)
(* read are taken as one step.                                             *)
(***************************************************************************)
\* Connection::get_preauthenticated_session_info
get_preauthenticated_session_info(s, key) ==
    LET maybe_user_id == Hget(s, key, "user_id")
        maybe_csrf_token == Hget(s, key, "csrf")
    IN  IF IsSome(maybe_user_id) /\ IsSome(maybe_csrf_token)
        THEN [status |-> "ok",
              info |-> Some(PreAuthenticationInfo(Unwrap(maybe_csrf_token),
                                                  Unwrap(maybe_user_id)))]
        ELSE [status |-> "ok", info |-> None]

\* Connection::get_authenticated_session_info
get_authenticated_session_info(s, key) ==
    LET maybe_user_id == Hget(s, key, "user_id")
        maybe_admin == Hget(s, key, "admin")
        maybe_csrf_token == Hget(s, key, "csrf")
    IN  IF IsSome(maybe_user_id) /\ IsSome(maybe_admin) /\ IsSome(maybe_csrf_token)
        THEN [status |-> "ok",
              info |-> Some(AuthenticatedInfo(Unwrap(maybe_csrf_token),
                                              Unwrap(maybe_user_id),
                                              Unwrap(maybe_admin)))]
        ELSE [status |-> "ok", info |-> None]

\* Connection::get_registration_session_data: only email is read as an
\* Option; a nil reply for any other field fails the conversion to String
get_registration_session_data(s, key) ==
    LET email_opt == Hget(s, key, "email")
    IN  IF ~IsSome(email_opt) THEN [status |-> "ok", info |-> None]
        ELSE IF \E f \in {"forename", "surname", "address", "csrf"} : ~IsSome(Hget(s, key, f))
        THEN [status |-> "error", info |-> None]
        ELSE [status |-> "ok",
              info |-> Some(RegistrationInfo(Unwrap(Hget(s, key, "csrf")),
                        [email |-> Unwrap(email_opt),
                         forename |-> Unwrap(Hget(s, key, "forename")),
                         surname |-> Unwrap(Hget(s, key, "surname")),
                         address |-> Unwrap(Hget(s, key, "address"))]))]

\* Connection::get_info
get_info(s, token, session_type) ==
    LET key == KeyOf(session_type, token)
    IN  CASE session_type = "PreAuthentication" -> get_preauthenticated_session_info(s, key)
          [] session_type = "Authenticated" -> get_authenticated_session_info(s, key)
          [] session_type = "Registration" -> get_registration_session_data(s, key)

\* BaseSession::get
BaseSessionGet(s, token, session_type) ==
    LET r == get_info(s, token, session_type)
    IN  [status |-> r.status,
         session |-> IF IsSome(r.info) THEN Some(BaseSession(token, Unwrap(r.info)))
                     ELSE None]

(***************************************************************************)
(* SessionTrait::get of the typed variants.  A value is the variant's name *)
(* with the BaseSession it wraps.                                          *)
(***************************************************************************)
Typed(variant, session) == [variant |-> variant, session |-> session]

\* PreAuthenticationSession::get
PreAuthenticationSessionGet(s, token) ==
    LET r == BaseSessionGet(s, token, "PreAuthentication")
    IN  [status |-> r.status,
         session |-> {Typed("PreAuthentication", b) : b \in r.session}]

\* RegistrationSession::get
RegistrationSessionGet(s, token) ==
    LET r == BaseSessionGet(s, token, "Registration")
    IN  [status |-> r.status,
         session |-> {Typed("Registration", b) : b \in r.session}]

\* a CustomerSession::get that does not look at the admin flag
CustomerSessionGetAny(s, token) ==
    LET r == BaseSessionGet(s, token, "Authenticated")
    IN  [status |-> r.status, session |-> {Typed("Customer", b) : b \in r.session}]
\* CustomerSession::get
CustomerSessionGet(s, token) ==
    LET r == BaseSessionGet(s, token, "Authenticated")
    IN  [status |-> r.status,
         session |-> {Typed("Customer", b) : b \in {x \in r.session : ~x.session_info.admin}}]

\* an AdministratorSession::get that fails on a customer's record
AdministratorSessionGetForbidden(s, token) ==
    LET r == BaseSessionGet(s, token, "Authenticated")
    IN  [status |-> IF \E x \in r.session : ~x.session_info.admin THEN "error" ELSE r.status,
         session |-> {Typed("Administrator", b) : b \in {x \in r.session : x.session_info.admin}}]
\* AdministratorSession::get
AdministratorSessionGet(s, token) ==
    LET r == BaseSessionGet(s, token, "Authenticated")
    IN  [status |-> r.status,
         session |-> {Typed("Administrator", b) : b \in {x \in r.session : x.session_info.admin}}]

\* GenericAuthenticatedSession::get
GenericAuthenticatedSessionGet(s, token) ==
    LET r == BaseSessionGet(s, token, "Authenticated")
    IN  [status |-> r.status,
         session |-> {Typed(IF b.session_info.admin THEN "Administrator" ELSE "Customer", b)
                        : b \in r.session}]

Variants == {"PreAuthentication", "Registration", "Customer", "Administrator", "Generic"}
\* a get has returned Ok(Some(session))
Resolves(got) == IsSome(got.session)
\* T::get for the session type T a route is mounted with
SessionGet(variant, s, token) ==
    CASE variant = "PreAuthentication" -> PreAuthenticationSessionGet(s, token)
      [] variant = "Registration" -> RegistrationSessionGet(s, token)
      [] variant = "Customer" -> CustomerSessionGet(s, token)
      [] variant = "Administrator" -> AdministratorSessionGet(s, token)
      [] variant = "Generic" -> GenericAuthenticatedSessionGet(s, token)

(***************************************************************************)
(* Primary data store (external collaborator), reduced to what the         *)
(* services read and write.                                                *)
(***************************************************************************)
UserRow(email, forename, surname, address, role) ==
    [email |-> email, forename |-> forename, surname |-> surname,
     address |-> address, role |-> role]

\* email LIKE '%needle%' (the escaped needle matches literally)
Contains(hay, needle) ==
    \E i \in 1..(Len(hay) - Len(needle) + 1) :
        SubSeq(hay, i, i + Len(needle) - 1) = needle

\* AppUser::search with only the email parameter: ids of the rows returned
AppUserSearch(email) ==
    {u \in UserIds : IsSome(users[u]) /\ Contains(Unwrap(users[u]).email, email)}

\* do_password_authentication: Password::select(..).is_some_and(verify)
do_password_authentication(user_id, pw) ==
    IsSome(password[user_id]) /\ Unwrap(password[user_id]) = pw

\* validate_2fa: Totp::select(..).is_some_and(|secret| secret.validate(code))
validate_2fa(user_id, code) == totp[user_id] /\ code = "current"

(***************************************************************************)
(* How a handler ends.                                                     *)
(***************************************************************************)
Return(p, result) ==
    /\ pc' = [pc EXCEPT ![p] = "idle"]
    /\ loc' = [loc EXCEPT ![p] = Idle]
    /\ out' = result

Outcome(p, status, http) ==
    [NoOut EXCEPT !.op = loc[p].op, !.status = status, !.http = http]

Goto(p, label, locals) ==
    /\ pc' = [pc EXCEPT ![p] = label]
    /\ loc' = [loc EXCEPT ![p] = locals]
    /\ out' = NoOut

\* a request reaches an idle handler (handlers are interchangeable: the
\* first idle one takes it)
Arrives(p) ==
    /\ pc[p] = "idle"
    /\ p = "h1" \/ pc["h1"] # "idle"
    /\ arrived < MaxRequests
    /\ arrived' = arrived + 1

(***************************************************************************)
(* Connection::create, one Redis command per step, under BaseSession::     *)
(* create's loop.  loc[p].info is the SessionInfo, loc[p].cand the         *)
(* candidate token, loc[p].caller the constructor that asked for it.       *)
(***************************************************************************)
CreateKey(p) == KeyOf(loc[p].info.kind, loc[p].cand)
FirstField(info) == IF info.kind = "Registration" THEN "email" ELSE "user_id"
FirstValue(info) == IF info.kind = "Registration" THEN info.email ELSE info.user_id

\* a BaseSession::create that hands Duplicate to its caller
OnDuplicateReturned(p) == Return(p, Outcome(p, "Duplicate", 0))
\* the Duplicate arm of BaseSession::create: keep looping
\* (a direct caller of Connection::create gets Duplicate itself)
OnDuplicate(p) ==
    IF loc[p].caller = "Connection::create"
    THEN Return(p, Outcome(p, "Duplicate", 0))
    ELSE Goto(p, "cr_loop", [loc[p] EXCEPT !.cand = 0,
                                           !.retried = (loc[p].caller = "BaseSession::create")])

\* history: the create that makes the key
MadeBy(p) ==
    [kind |-> loc[p].info.kind, via |-> loc[p].caller, src |-> loc[p].sess.token,
     totp0 |-> loc[p].totp0, mfa |-> loc[p].mfa, won |-> 0, tried |-> loc[p].tried]

\* store_*_data: hset_nx(key, "user_id" | "email", ..) by handler p
FirstFieldWritten(p, key) ==
    LET written == HsetNx(store, key, FirstField(loc[p].info), FirstValue(loc[p].info))
    IN  IF Exists(store, key) THEN written ELSE [written EXCEPT ![key].made = MadeBy(p)]

\* where Connection::create goes on once the field it read back is its own
AfterCheck(info) ==
    CASE info.kind = "Registration" -> "cr_multi"
      [] info.kind = "Authenticated" -> "cr_admin"
      [] info.kind = "PreAuthentication" -> "cr_csrf"

\* BaseSession::create: generate_token and Connection::create up to the
\* comparison of the field read back.  A colliding candidate is refused by
\* EXISTS and the loop goes round; a new candidate names a key that no other
\* handler can name before this create returns, so its EXISTS, HSETNX and
\* HGET are one step.
BaseSessionCreate(p) ==
    /\ pc[p] = "cr_loop"
    /\ \/ /\ CanDraw
          /\ drawn' = generate_token
          /\ store' = FirstFieldWritten(p, KeyOf(loc[p].info.kind, generate_token))
          /\ Goto(p, AfterCheck(loc[p].info), [loc[p] EXCEPT !.cand = generate_token])
       \/ /\ \E candidate \in Colliding(loc[p].info.kind) : OnDuplicate(p)
          /\ UNCHANGED <<drawn, store>>
    /\ UNCHANGED <<dbvars, issued, arrived, guardvars, rngvars>>

\* Connection::create: exists(&key)
StoreExists(p) ==
    /\ pc[p] = "cr_exists"
    /\ IF Exists(store, CreateKey(p)) THEN OnDuplicate(p) ELSE Goto(p, "cr_nx", loc[p])
    /\ UNCHANGED <<store, dbvars, drawn, issued, arrived, guardvars, rngvars>>

\* store_*_data: hset_nx(key, "user_id" | "email", ..)
StoreFirstField(p) ==
    /\ pc[p] = "cr_nx"
    /\ store' = FirstFieldWritten(p, CreateKey(p))
    /\ Goto(p, "cr_get", loc[p])
    /\ UNCHANGED <<dbvars, drawn, issued, arrived, guardvars, rngvars>>

\* store_*_data: hget of the field just written and the comparison
StoreCheckField(p) ==
    /\ pc[p] = "cr_get"
    /\ LET set_value == Hget(store, CreateKey(p), FirstField(loc[p].info))
       IN  IF ~IsSome(set_value)
           THEN Return(p, Outcome(p, "StorageError", 500))
           ELSE IF Unwrap(set_value) # FirstValue(loc[p].info)
           THEN OnDuplicate(p)
           ELSE Goto(p, AfterCheck(loc[p].info), loc[p])
    /\ UNCHANGED <<store, dbvars, drawn, issued, arrived, guardvars, rngvars>>

\* store_authenticated_data: hset(key, "admin", admin)
StoreAdmin(p) ==
    /\ pc[p] = "cr_admin"
    /\ store' = Hset(store, CreateKey(p), "admin", loc[p].info.admin)
    /\ Goto(p, "cr_csrf", loc[p])
    /\ UNCHANGED <<dbvars, drawn, issued, arrived, guardvars, rngvars>>

\* what follows Ok(()) of Connection::create: the constructor's set_expiry
\* (a direct caller of Connection::create or of BaseSession::create gets the
\* session)
AfterCreate(p) ==
    IF loc[p].caller \in {"Connection::create", "BaseSession::create"}
    THEN Return(p, [Outcome(p, "Ok", 0) EXCEPT
                      !.session = BaseSession(loc[p].cand, loc[p].info)])
    ELSE Goto(p, "cr_expire", loc[p])

\* history: one more create has returned Ok for the key
Won(s, key) == [s EXCEPT ![key].made.won = @ + 1]

\* store_authenticated_data / store_preauthentication_data: hset(key, "csrf", csrf)
StoreCsrf(p) ==
    /\ pc[p] = "cr_csrf"
    /\ store' = Won(Hset(store, CreateKey(p), "csrf", loc[p].info.csrf), CreateKey(p))
    /\ AfterCreate(p)
    /\ UNCHANGED <<dbvars, drawn, issued, arrived, guardvars, rngvars>>

\* store_registration_data: hset_multiple(forename, surname, address, csrf)
StoreRegistrationFields(p) ==
    /\ pc[p] = "cr_multi"
    /\ LET key == CreateKey(p)
           i == loc[p].info
       IN  store' = Won(Hset(Hset(Hset(Hset(store, key, "forename", i.forename),
                                       key, "surname", i.surname),
                                  key, "address", i.address),
                             key, "csrf", i.csrf), key)
    /\ AfterCreate(p)
    /\ UNCHANGED <<dbvars, drawn, issued, arrived, guardvars, rngvars>>

\* constructors that all pass SESSION_TIMEOUT
TimeoutOfCustomer(caller) == SESSION_TIMEOUT
\* the timeout each constructor passes to set_expiry
TimeoutOf(caller) ==
    CASE caller = "PreAuthenticationSession::create" -> PREAUTH_SESSION_TIMEOUT
      [] caller = "RegistrationSession::create" -> REGISTRATION_SESSION_TIMEOUT
      [] caller = "promote" -> SESSION_TIMEOUT
      [] caller = "promote_to_admin" -> ADMIN_SESSION_TIMEOUT

\* the session a successful request hands to its client
Hand(p, status, http, session, old) ==
    /\ Return(p, [Outcome(p, status, http) EXCEPT !.session = session, !.old = old])
    /\ issued' = issued \cup {[session |-> session.token,
                                session_csrf |-> session.session_info.csrf]}

\* BaseSession::set_expiry at the end of a constructor, and the constructor's
\* return to authenticate, authenticate_2fa or signup_init
SetExpiry(p) ==
    /\ pc[p] = "cr_expire"
    /\ store' = ExpireKey(store, CreateKey(p), TimeoutOf(loc[p].caller))
    /\ LET session == BaseSession(loc[p].cand, loc[p].info)
       IN  CASE loc[p].caller = "PreAuthenticationSession::create" ->
                  /\ Goto(p, "au_totp", [loc[p] EXCEPT !.sess = session, !.cand = 0,
                                                       !.info = NoInfo])
                  /\ UNCHANGED issued
             [] loc[p].caller = "promote" ->
                  Hand(p, "Success", 200, session, loc[p].sess)
             [] loc[p].caller = "promote_to_admin" ->
                  Hand(p, "SuccessAdministrative", 200, session, loc[p].sess)
             [] loc[p].caller = "RegistrationSession::create" ->
                  Hand(p, "Ok", 200, session, NoSession)
    /\ UNCHANGED <<dbvars, drawn, arrived, guardvars, rngvars>>

(***************************************************************************)
(* PreAuthenticationSession::promote and promote_to_admin: the delete of   *)
(* the pre-authentication key, followed by generate_token for the csrf and *)
(* BaseSession::create of the Authenticated record.                        *)
(***************************************************************************)
PromoteToKeeping(p, admin) ==
    /\ UNCHANGED store
    /\ CanDraw
    /\ drawn' = generate_token
    /\ Goto(p, "cr_loop",
            [loc[p] EXCEPT !.info = AuthenticatedInfo(generate_token,
                              loc[p].sess.session_info.user_id, admin)])
\* a promotion that writes admin: true whichever of the two functions runs
PromoteToAdministrator(p, admin) ==
    /\ store' = Del(store, KeyOf("PreAuthentication", loc[p].sess.token))
    /\ CanDraw
    /\ drawn' = generate_token
    /\ Goto(p, "cr_loop",
            [loc[p] EXCEPT !.info = AuthenticatedInfo(generate_token,
                              loc[p].sess.session_info.user_id, TRUE)])
PromoteTo(p, admin) ==
    /\ store' = Del(store, KeyOf("PreAuthentication", loc[p].sess.token))
    /\ IF loc[p].sess.session_info.kind # "PreAuthentication"
       THEN /\ Return(p, Outcome(p, "panic", 0))    \* as_pre_auth().expect(..)
            /\ UNCHANGED drawn
       ELSE /\ CanDraw
            /\ drawn' = generate_token
            /\ Goto(p, "cr_loop",
                    [loc[p] EXCEPT !.info = AuthenticatedInfo(generate_token,
                                      loc[p].sess.session_info.user_id, admin)])

\* PreAuthenticationSession::promote
promote(p) ==
    /\ pc[p] = "pr_delete"
    /\ loc[p].caller = "promote"
    /\ PromoteTo(p, FALSE)
    /\ UNCHANGED <<dbvars, issued, arrived, guardvars, rngvars>>

\* PreAuthenticationSession::promote_to_admin
promote_to_admin(p) ==
    /\ pc[p] = "pr_delete"
    /\ loc[p].caller = "promote_to_admin"
    /\ PromoteTo(p, TRUE)
    /\ UNCHANGED <<dbvars, issued, arrived, guardvars, rngvars>>

\* match user.role { Customer => promote, Administrator => promote_to_admin }
PromotionFor(role) == IF role = "Administrator" THEN "promote_to_admin" ELSE "promote"

(***************************************************************************)
(* services::auth::authenticate                                            *)
(***************************************************************************)
\* an authenticate that creates the pre-authentication record before it
\* verifies the credential
AuthenticateFailureAfterCreate(p, email, pw) ==
    /\ Return(p, [NoOut EXCEPT !.op = "authenticate", !.status = "Failure", !.http = 401,
                               !.email = email, !.pw = pw])
    /\ CanDraw
    /\ drawn' = generate_token
    /\ store' = Hset(store, KeyOf("PreAuthentication", generate_token), "user_id", 1)
\* return Ok(AuthenticationOutcome::Failure), before any session is created
AuthenticateFailure(p, email, pw) ==
    /\ Return(p, [NoOut EXCEPT !.op = "authenticate", !.status = "Failure", !.http = 401,
                               !.email = email, !.pw = pw])
    /\ UNCHANGED <<drawn, store>>

\* authenticate up to PreAuthenticationSession::create's call of
\* BaseSession::create: AppUser::search(email) and res.pop() (the rows come in
\* no stated order), credential.authenticate(user.id()), generate_token for
\* the csrf.  The two queries only read, and are taken as one step.
Authenticate(p, me, email, pw) ==
    IF AppUserSearch(email) = {}
    THEN AuthenticateFailure(p, email, pw)
    ELSE \E user \in AppUserSearch(email) :
           IF ~do_password_authentication(user, pw)
           THEN AuthenticateFailure(p, email, pw)
           ELSE /\ CanDraw
                /\ drawn' = generate_token
                /\ Goto(p, "cr_loop",
                        [me EXCEPT !.uid = user,
                                   !.role = Unwrap(users[user]).role,
                                   !.info = PreAuthenticationInfo(generate_token, user),
                                   !.caller = "PreAuthenticationSession::create",
                                   !.totp0 = totp[user]])
                /\ UNCHANGED store

\* a call of authenticate with an email and a password of the caller's choice
authenticate(p) ==
    /\ Arrives(p)
    /\ \E email \in Emails, pw \in {"pw8", "pw7"} :
         Authenticate(p, [Idle EXCEPT !.op = "authenticate"], email, pw)
    /\ UNCHANGED <<dbvars, issued, guardvars, rngvars>>

\* an authenticate that promotes whether or not a second factor is registered
AuthenticateSecondFactorSkipped(p) ==
    /\ pc[p] = "au_totp"
    /\ Goto(p, "pr_delete", [loc[p] EXCEPT !.caller = PromotionFor(loc[p].role)])
    /\ UNCHANGED <<store, dbvars, drawn, issued, arrived, guardvars, rngvars>>
\* Totp::select(user_id).is_none(): promote by role, or Partial
AuthenticateSecondFactor(p) ==
    /\ pc[p] = "au_totp"
    /\ IF ~totp[loc[p].uid]
       THEN /\ Goto(p, "pr_delete", [loc[p] EXCEPT !.caller = PromotionFor(loc[p].role)])
            /\ UNCHANGED issued
       ELSE Hand(p, "Partial", 200, loc[p].sess, NoSession)
    /\ UNCHANGED <<store, dbvars, drawn, arrived, guardvars, rngvars>>

(***************************************************************************)
(* services::auth::authenticate_2fa, entered from the /auth/2fa route      *)
(***************************************************************************)
\* history: authenticate_2fa has answered Failure for the session
Tried(s, key) == IF Exists(s, key) THEN [s EXCEPT ![key].made.tried = TRUE] ELSE s

\* an authenticate_2fa that deletes the session it answers Failure for
authenticate_2faDeleting(p) ==
    /\ pc[p] = "fa_user"
    /\ LET user_id == loc[p].sess.session_info.user_id
           key == KeyOf("PreAuthentication", loc[p].sess.token)
       IN  IF ~IsSome(users[user_id])
           THEN Return(p, Outcome(p, "panic", 0)) /\ UNCHANGED store
           ELSE IF validate_2fa(user_id, loc[p].code)
           THEN /\ Goto(p, "pr_delete",
                        [loc[p] EXCEPT !.uid = user_id,
                                       !.role = Unwrap(users[user_id]).role,
                                       !.caller = PromotionFor(Unwrap(users[user_id]).role),
                                       !.code = "", !.mfa = TRUE,
                                       !.tried = store[key].made.tried])
                /\ UNCHANGED store
           ELSE /\ Return(p, [Outcome(p, "Failure", 401) EXCEPT !.old = loc[p].sess,
                                                                !.code = loc[p].code])
                /\ store' = Del(store, key)
    /\ UNCHANGED <<dbvars, drawn, issued, arrived, guardvars, rngvars>>
\* authenticate_2fa up to the promotion:
\* AppUser::select_one(session.user_id()).expect(..), then validate_2fa and
\* the match on user.role, or Failure.  The two queries only read, and are
\* taken as one step.
authenticate_2fa(p) ==
    /\ pc[p] = "fa_user"
    /\ LET user_id == loc[p].sess.session_info.user_id
           key == KeyOf("PreAuthentication", loc[p].sess.token)
       IN  IF ~IsSome(users[user_id])
           THEN Return(p, Outcome(p, "panic", 0)) /\ UNCHANGED store
           ELSE IF validate_2fa(user_id, loc[p].code)
           THEN /\ Goto(p, "pr_delete",
                        [loc[p] EXCEPT !.uid = user_id,
                                       !.role = Unwrap(users[user_id]).role,
                                       !.caller = PromotionFor(Unwrap(users[user_id]).role),
                                       !.code = "", !.mfa = TRUE,
                                       !.tried = store[key].made.tried])
                /\ UNCHANGED store
           ELSE /\ Return(p, [Outcome(p, "Failure", 401) EXCEPT !.old = loc[p].sess,
                                                                !.code = loc[p].code])
                /\ store' = Tried(store, key)
    /\ UNCHANGED <<dbvars, drawn, issued, arrived, guardvars, rngvars>>

(***************************************************************************)
(* session_middleware in front of the routes it guards.                    *)
(***************************************************************************)
Routes == {"POST /auth/2fa", "DELETE /auth", "POST /onboarding/credential"}

\* the session type T the route's middleware is instantiated with
RouteSession(route) ==
    CASE route = "POST /auth/2fa" -> "PreAuthentication"
      [] route = "DELETE /auth" -> "Generic"
      [] route = "POST /onboarding/credential" -> "Registration"

\* where the route's handler starts
RouteHandler(route) ==
    CASE route = "POST /auth/2fa" -> "fa_user"
      [] route = "DELETE /auth" -> "lo_delete"
      [] route = "POST /onboarding/credential" -> "ac_store"

\* a session_middleware that does not compare the header with the session's token
session_middlewareUncompared(got, hdr) ==
    IF got.status = "error" THEN 500
    ELSE IF ~IsSome(got.session) THEN 401
    ELSE IF ~hdr.present THEN STATUS_CODE_BAD_CSRF
    ELSE IF ~hdr.ascii THEN 400
    ELSE 0
\* a session_middleware that reads the X-CSRF-Token header before the session
session_middlewareHeaderFirst(got, hdr) ==
    IF ~hdr.present THEN STATUS_CODE_BAD_CSRF
    ELSE IF ~hdr.ascii THEN 400
    ELSE IF got.status = "error" THEN 500
    ELSE IF ~IsSome(got.session) THEN 401
    ELSE IF hdr.value # Unwrap(got.session).session.session_info.csrf
         THEN STATUS_CODE_BAD_CSRF
    ELSE 0
\* session_middleware: the status it answers with, 0 when next.run is reached
session_middleware(got, hdr) ==
    IF got.status = "error" THEN 500
    ELSE IF ~IsSome(got.session) THEN 401
    ELSE IF ~hdr.present THEN STATUS_CODE_BAD_CSRF
    ELSE IF ~hdr.ascii THEN 400
    ELSE IF hdr.value # Unwrap(got.session).session.session_info.csrf
         THEN STATUS_CODE_BAD_CSRF
    ELSE 0

\* the body a route's handler reads: a 2fa code, a password, or nothing
Bodies(route) ==
    CASE route = "POST /auth/2fa" ->
           {[code |-> c, pw |-> ""] : c \in Codes}
      [] route = "POST /onboarding/credential" ->
           {[code |-> "", pw |-> w] : w \in Passwords}
      [] OTHER -> {[code |-> "", pw |-> ""]}

\* A request to a session-guarded route: the middleware, and the entry of
\* the handler with the session as its Extension.  The cookie is a token a
\* client was handed, or absent; the header is absent, not visible ASCII, a
\* value no session holds (0), or a csrf token a client was handed.
Request(p) ==
    /\ Arrives(p)
    /\ \E route \in Routes, cookie \in {None} \cup {Some(c.session) : c \in issued} :
       \E hdr \in {NoHeader, NonAsciiHeader, AsciiHeader(0)}
                     \cup {AsciiHeader(c.session_csrf) : c \in issued} :
         LET got == IF IsSome(cookie)
                    THEN SessionGet(RouteSession(route), store, Unwrap(cookie))
                    ELSE [status |-> "ok", session |-> None]
             status == session_middleware(got, hdr)
             typed == Unwrap(got.session)
             made == store[KeyOf(typed.session.session_info.kind, typed.session.token)].made
         IN  IF status # 0
             THEN Return(p, IF IsSome(got.session)
                            THEN [NoOut EXCEPT !.op = route, !.status = "rejected",
                                               !.http = status, !.hdr = hdr,
                                               !.session = typed.session]
                            ELSE [NoOut EXCEPT !.op = route, !.status = "rejected",
                                               !.http = status])
             ELSE \E body \in Bodies(route) :
                    /\ pc' = [pc EXCEPT ![p] = RouteHandler(route)]
                    /\ loc' = [loc EXCEPT ![p] =
                                 [Idle EXCEPT !.op = route, !.sess = typed.session,
                                              !.code = body.code, !.pw = body.pw,
                                              !.totp0 = made.totp0]]
                    /\ out' = [NoOut EXCEPT !.op = route, !.status = "next.run",
                                            !.hdr = hdr, !.session = typed.session]
    /\ UNCHANGED <<store, dbvars, drawn, issued, guardvars, rngvars>>

\* a delete that fails when DEL removed no key
ConnectionDeleteStrict(s, token, session_type) ==
    LET key == KeyOf(session_type, token)
    IN  [status |-> IF Exists(s, key) THEN "ok" ELSE "error", store |-> Del(s, key),
         removed |-> IF Exists(s, key) THEN 1 ELSE 0]
\* Connection::delete: let _: () = self.0.del(key).await?; Ok(()).  DEL
\* replies with the number of keys it removed, 0 for a key that is not
\* there; the conversion to () accepts either.
ConnectionDelete(s, token, session_type) ==
    LET key == KeyOf(session_type, token)
    IN  [status |-> "ok", store |-> Del(s, key),
         removed |-> IF Exists(s, key) THEN 1 ELSE 0]

\* a logout whose delete names the pre-authentication namespace
logoutPreAuthentication(p) ==
    /\ pc[p] = "lo_delete"
    /\ store' = Del(store, KeyOf("PreAuthentication", loc[p].sess.token))
    /\ Return(p, [Outcome(p, "Ok", 200) EXCEPT !.old = loc[p].sess])
    /\ UNCHANGED <<dbvars, drawn, issued, arrived, guardvars, rngvars>>
\* logout: session.delete(..).await?, which for every authenticated variant
\* is Connection::delete(token, SessionType::Authenticated)
logout(p) ==
    /\ pc[p] = "lo_delete"
    /\ LET deleted == ConnectionDelete(store, loc[p].sess.token, "Authenticated")
       IN  /\ store' = deleted.store
           /\ IF deleted.status = "error"
              THEN Return(p, [Outcome(p, "StorageError", 500) EXCEPT
                                !.old = loc[p].sess, !.removed = deleted.removed])
              ELSE Return(p, [Outcome(p, "Ok", 200) EXCEPT
                                !.old = loc[p].sess, !.removed = deleted.removed])
    /\ UNCHANGED <<dbvars, drawn, issued, arrived, guardvars, rngvars>>

(***************************************************************************)
(* services::registration                                                  *)
(***************************************************************************)
UserData == [email : Emails, forename : Names, surname : Names, address : Names]

\* signup_init: the duplicate search, the empty-field checks, and
\* RegistrationSession::create up to its call of BaseSession::create
signup_init(p) ==
    /\ Arrives(p)
    /\ \E user_data \in UserData :
         LET me == [Idle EXCEPT !.op = "signup_init"]
             refuse(status, http) ==
                 Return(p, [NoOut EXCEPT !.op = "signup_init", !.status = status,
                                         !.http = http])
             refused(status, http) == refuse(status, http) /\ UNCHANGED drawn
         IN  IF AppUserSearch(user_data.email) # {} THEN refused("DuplicateEmail", 409)
             ELSE IF user_data.address = "" THEN refused("EmptyAddress", 422)
             ELSE IF user_data.surname = "" THEN refused("EmptySurname", 422)
             ELSE IF user_data.forename = "" THEN refused("EmptyForename", 422)
             ELSE /\ CanDraw
                  /\ drawn' = generate_token
                  /\ Goto(p, "cr_loop",
                          [me EXCEPT !.info = RegistrationInfo(generate_token, user_data),
                                     !.caller = "RegistrationSession::create"])
    /\ UNCHANGED <<store, dbvars, issued, guardvars, rngvars>>

\* add_credential_and_commit: user_data.store(db_conn), then the password
\* length checks
AddCredentialStoreUser(p) ==
    /\ pc[p] = "ac_store"
    /\ lastId < MaxUsers
    /\ LET id == lastId + 1
           i == loc[p].sess.session_info
       IN  /\ lastId' = id
           /\ users' = [users EXCEPT ![id] =
                          Some(UserRow(i.email, i.forename, i.surname, i.address, "Customer"))]
           /\ IF PasswordLen(loc[p].pw) < PASSWORD_MIN_LENGTH
              THEN Return(p, [Outcome(p, "PasswordTooShort", 422) EXCEPT !.old = loc[p].sess])
              ELSE IF PasswordLen(loc[p].pw) > PASSWORD_MAX_LENGTH
              THEN Return(p, [Outcome(p, "PasswordTooLong", 422) EXCEPT !.old = loc[p].sess])
              ELSE Goto(p, "ac_pw", [loc[p] EXCEPT !.uid = id])
    /\ UNCHANGED <<store, password, totp, drawn, issued, arrived, guardvars, rngvars>>

\* add_credential_and_commit: password_model.store(db_conn), Ok or Err
AddCredentialStorePassword(p) ==
    /\ pc[p] = "ac_pw"
    /\ \/ /\ IsSome(users[loc[p].uid])
          /\ password' = [password EXCEPT ![loc[p].uid] = Some(loc[p].pw)]
          /\ Goto(p, "ac_sessdel", [loc[p] EXCEPT !.pw = ""])
       \/ /\ UNCHANGED password
          /\ Goto(p, "ac_rollback", [loc[p] EXCEPT !.pw = ""])
    /\ UNCHANGED <<store, users, totp, lastId, drawn, issued, arrived, guardvars, rngvars>>

\* AppUser::delete: DELETE FROM appuser WHERE id = ..; the user's
\* credentials go with the row
AppUserDelete(user_id) ==
    /\ users' = [users EXCEPT ![user_id] = None]
    /\ password' = [password EXCEPT ![user_id] = None]
    /\ totp' = [totp EXCEPT ![user_id] = FALSE]
    /\ UNCHANGED lastId

\* add_credential_and_commit: stored_user.delete(db_conn) after the
\* credential could not be stored, and the return of the error
AddCredentialRollback(p) ==
    /\ pc[p] = "ac_rollback"
    /\ AppUserDelete(loc[p].uid)
    /\ Return(p, [Outcome(p, "StorageError", 500) EXCEPT !.old = loc[p].sess])
    /\ UNCHANGED <<store, drawn, issued, arrived, guardvars, rngvars>>

\* an add_credential_and_commit that returns Ok without deleting the session
AddCredentialKeepSession(p) ==
    /\ pc[p] = "ac_sessdel"
    /\ UNCHANGED store
    /\ Return(p, [Outcome(p, "Ok", 200) EXCEPT !.old = loc[p].sess])
    /\ UNCHANGED <<dbvars, drawn, issued, arrived, guardvars, rngvars>>
\* add_credential_and_commit: registration_session.delete
AddCredentialDeleteSession(p) ==
    /\ pc[p] = "ac_sessdel"
    /\ store' = Del(store, KeyOf("Registration", loc[p].sess.token))
    /\ Return(p, [Outcome(p, "Ok", 200) EXCEPT !.old = loc[p].sess])
    /\ UNCHANGED <<dbvars, drawn, issued, arrived, guardvars, rngvars>>

(***************************************************************************)
(* The environment: a command fails or a request is cancelled, a key's     *)
(* time-to-live runs out.                                                  *)
(***************************************************************************)
\* The handler goes no further than the await it is at: the command's error
\* is handed up by ? (the client is answered 500), or the request's future is
\* dropped.  Nothing the handler has written is undone.
Abandoned(p) ==
    /\ pc[p] # "idle"
    /\ Return(p, NoOut)
    /\ UNCHANGED <<store, dbvars, drawn, issued, arrived, guardvars, rngvars>>

\* Redis removes a key whose time-to-live has run out
Expired(key) ==
    /\ store[key].ttl > 0
    /\ store' = Del(store, key)
    /\ out' = NoOut
    /\ UNCHANGED <<dbvars, pc, loc, drawn, issued, arrived, guardvars, rngvars>>

(***************************************************************************)
(* Initial state: an empty session store and one registered user.          *)
(***************************************************************************)
NoCounter == [count |-> 0, ttl |-> 0]
NoHistory == [calls |-> 0, since |-> 0, last |-> 0, expired |-> FALSE]

Init ==
    /\ store = [k \in Keys |-> NoHash]
    /\ \E role \in Roles :
         users = [u \in UserIds |->
                    IF u = 1 THEN Some(UserRow(EmailA, "n", "n", "n", role)) ELSE None]
    /\ password = [u \in UserIds |-> IF u = 1 THEN Some("pw8") ELSE None]
    /\ totp \in {[u \in UserIds |-> u = 1 /\ b] : b \in BOOLEAN}
    /\ lastId = 1
    /\ pc = [p \in Procs |-> "idle"]
    /\ loc = [p \in Procs |-> Idle]
    /\ out = NoOut
    /\ drawn = 0
    /\ issued = {}
    /\ arrived = 0
    /\ bf = NoCounter
    /\ clock = NoHistory
    /\ token_buf = <<>>
    /\ acc = <<>>

Next ==
    \/ \E p \in Procs :
         \/ authenticate(p)
         \/ AuthenticateSecondFactor(p)
         \/ BaseSessionCreate(p)
         \/ StoreAdmin(p)
         \/ StoreCsrf(p)
         \/ StoreRegistrationFields(p)
         \/ SetExpiry(p)
         \/ promote(p)
         \/ promote_to_admin(p)
         \/ Request(p)
         \/ authenticate_2fa(p)
         \/ logout(p)
         \/ signup_init(p)
         \/ AddCredentialStoreUser(p)
         \/ AddCredentialStorePassword(p)
         \/ AddCredentialRollback(p)
         \/ AddCredentialDeleteSession(p)
         \/ Abandoned(p)
    \/ \E key \in Keys : Expired(key)

Spec == Init /\ [][Next]_vars

(***************************************************************************)
(* SpecCreate: Connection::create called directly by concurrent callers    *)
(* with tokens and session data of their choice, one Redis command a step. *)
(***************************************************************************)
CreateTokens == {1, 2}
CreateInfos ==
    {PreAuthenticationInfo(1, user_id) : user_id \in {1, 2}}
    \cup {AuthenticatedInfo(1, user_id, admin) : user_id \in {1, 2}, admin \in BOOLEAN}
    \cup {RegistrationInfo(1, [email |-> email, forename |-> "n", surname |-> "n",
                               address |-> "n"]) : email \in Emails}

\* a caller enters Connection::create(token, session_info)
ConnectionCreate(p) ==
    /\ Arrives(p)
    /\ \E token \in CreateTokens, session_info \in CreateInfos :
         Goto(p, "cr_exists", [Idle EXCEPT !.op = "Connection::create",
                                           !.caller = "Connection::create",
                                           !.cand = token, !.info = session_info])
    /\ UNCHANGED <<store, dbvars, drawn, issued, guardvars, rngvars>>

InitCreate ==
    /\ Init
    /\ Unwrap(users[1]).role = "Customer"
    /\ ~totp[1]

NextCreate ==
    \E p \in Procs :
        \/ ConnectionCreate(p)
        \/ StoreExists(p)
        \/ StoreFirstField(p)
        \/ StoreCheckField(p)
        \/ StoreAdmin(p)
        \/ StoreCsrf(p)
        \/ StoreRegistrationFields(p)

SpecCreate == InitCreate /\ [][NextCreate]_vars

\* C3: In no interleaving of concurrent Connection::create calls do two
\* creates return Ok for one token of one namespace while its record is
\* there, whatever user_id or email the calls carry.
C3_CreateIsConditional ==
    \A key \in Keys : store[key].made.won <= 1

\* the session kind a typed variant reads
KindOf(variant) ==
    IF variant \in {"Customer", "Administrator", "Generic"} THEN "Authenticated"
    ELSE variant

\* C5: A get of any variant returns only a record that a create of the
\* variant's own kind made: a token created under one kind is never returned
\* by the get of another kind.
C5_NamespaceIsolation ==
    \A variant \in Variants, t \in Tokens :
        LET got == SessionGet(variant, store, t)
        IN  Resolves(got) =>
              /\ store[KeyOf(KindOf(variant), t)].made.kind = KindOf(variant)
              /\ Unwrap(got.session).session.session_info.kind = KindOf(variant)
              /\ \A other \in SessionTypes \ {KindOf(variant)} :
                   store[KeyOf(other, t)].made.kind \in {"none", other}

\* one token is a Registration session and a PreAuthentication session at
\* once; each get finds its own, and no authenticated variant finds either
C5_Witness ==
    \E t \in Tokens :
        /\ Resolves(RegistrationSessionGet(store, t))
        /\ Resolves(PreAuthenticationSessionGet(store, t))
        /\ ~Resolves(GenericAuthenticatedSessionGet(store, t))
        /\ ~Resolves(CustomerSessionGet(store, t))
        /\ ~Resolves(AdministratorSessionGet(store, t))

(***************************************************************************)
(* SpecGuard: Connection::bruteforce_timeout for one client address, the   *)
(* INCR and the EXPIRE as the two commands they are, and the passing of    *)
(* time in seconds.  bf is the counter key: its value and the seconds it   *)
(* has left (0: no expiry set; count 0: the key does not exist).  clock is *)
(* history: the calls made so far, the seconds since the fifth of them and *)
(* since the latest return (both capped), and whether the key ever ran out.*)
(***************************************************************************)
Capped == AUTH_PENALTY_PERIOD + 1

\* attempts < AUTH_TIMEOUT_ATTEMPTS, seen from its else branch
TimedOutLate(attempts) == ~(attempts <= AUTH_TIMEOUT_ATTEMPTS)
TimedOut(attempts) == ~(attempts < AUTH_TIMEOUT_ATTEMPTS)

\* an increment that is a read and a write: the write of a call that began
\* while another was under way is lost
GuardIncrLost(p) ==
    /\ pc[p] = "idle"
    /\ clock.calls < MaxCalls
    /\ LET count == IF \E q \in Procs : pc[q] = "bf_expire" THEN bf.count ELSE bf.count + 1
       IN  /\ bf' = [bf EXCEPT !.count = count]
           /\ Goto(p, "bf_expire", [Idle EXCEPT !.op = "bruteforce_timeout",
                                                !.attempts = count,
                                                !.nth = clock.calls + 1])
    /\ clock' = [clock EXCEPT !.calls = @ + 1,
                              !.since = IF clock.calls + 1 = AUTH_TIMEOUT_ATTEMPTS
                                        THEN 0 ELSE @]
    /\ UNCHANGED <<store, dbvars, drawn, issued, arrived, rngvars>>
\* bruteforce_timeout: incr(&key, 1)
GuardIncr(p) ==
    /\ pc[p] = "idle"
    /\ clock.calls < MaxCalls
    /\ bf' = [bf EXCEPT !.count = @ + 1]
    /\ clock' = [clock EXCEPT !.calls = @ + 1,
                              !.since = IF clock.calls + 1 = AUTH_TIMEOUT_ATTEMPTS
                                        THEN 0 ELSE @]
    /\ Goto(p, "bf_expire", [Idle EXCEPT !.op = "bruteforce_timeout",
                                         !.attempts = bf.count + 1,
                                         !.nth = clock.calls + 1])
    /\ UNCHANGED <<store, dbvars, drawn, issued, arrived, rngvars>>

\* bruteforce_timeout: expire(&key, ..) and the answer
GuardExpire(p) ==
    /\ pc[p] = "bf_expire"
    /\ LET seconds == IF TimedOut(loc[p].attempts)
                      THEN AUTH_PENALTY_PERIOD ELSE AUTH_TIMEOUT_PERIOD
       IN  bf' = IF bf.count > 0 THEN [bf EXCEPT !.ttl = seconds] ELSE bf
    /\ clock' = [clock EXCEPT !.last = 0]
    /\ Return(p, [NoOut EXCEPT !.op = "bruteforce_timeout",
                               !.status = IF TimedOut(loc[p].attempts)
                                          THEN "deny" ELSE "allow",
                               !.http = IF TimedOut(loc[p].attempts) THEN 429 ELSE 0,
                               !.nth = loc[p].nth])
    /\ UNCHANGED <<store, dbvars, drawn, issued, arrived, rngvars>>

Min(a, b) == IF a < b THEN a ELSE b

\* a second passes; Redis removes the key when its time-to-live runs out
Tick ==
    /\ bf' = IF bf.ttl = 1 THEN NoCounter
             ELSE IF bf.ttl > 1 THEN [bf EXCEPT !.ttl = @ - 1]
             ELSE bf
    /\ clock' = [clock EXCEPT !.since = IF clock.calls < AUTH_TIMEOUT_ATTEMPTS THEN @
                                        ELSE Min(@ + 1, Capped),
                              !.last = IF clock.calls = 0 THEN @ ELSE Min(@ + 1, Capped),
                              !.expired = @ \/ bf.ttl = 1]
    /\ out' = NoOut
    /\ UNCHANGED <<store, dbvars, pc, loc, drawn, issued, arrived, rngvars>>

InitGuard ==
    /\ Init
    /\ Unwrap(users[1]).role = "Customer"
    /\ ~totp[1]

NextGuard ==
    \/ \E p \in Procs : GuardIncr(p) \/ GuardExpire(p)
    \/ Tick

SpecGuard == InitGuard /\ [][NextGuard]_vars

\* C7 as stated: of a fresh client's calls, the first four are allowed, and
\* the fifth and every later call within 60 seconds of the fifth are denied.
C7_FifthCallDenied ==
    out.op = "bruteforce_timeout" =>
        /\ out.nth < AUTH_TIMEOUT_ATTEMPTS => out.status = "allow"
        /\ (out.nth >= AUTH_TIMEOUT_ATTEMPTS /\ clock.since <= AUTH_PENALTY_PERIOD)
           => out.status = "deny"

\* C7 amended: of a fresh client's calls, the first four are allowed, and
\* the fifth and every later call are denied as long as the client's counter
\* has not run out since the first call.
C7_DeniedWhileCounterLives ==
    out.op = "bruteforce_timeout" =>
        /\ out.nth < AUTH_TIMEOUT_ATTEMPTS => out.status = "allow"
        /\ (out.nth >= AUTH_TIMEOUT_ATTEMPTS /\ ~clock.expired) => out.status = "deny"

\* the sixth call of a client whose counter never ran out has been denied
C7_Witness ==
    /\ out.op = "bruteforce_timeout"
    /\ out.nth = AUTH_TIMEOUT_ATTEMPTS + 1
    /\ ~clock.expired
    /\ out.status = "deny"

\* C8: When no call is under way and the counter is at or above the
\* threshold, its time-to-live is the penalty period counted from the latest
\* attempt.
C8_PenaltyFromLatestAttempt ==
    ((\A p \in Procs : pc[p] = "idle") /\ bf.count >= AUTH_TIMEOUT_ATTEMPTS)
    => bf.ttl = AUTH_PENALTY_PERIOD - clock.last


(***************************************************************************)
(* Properties of Spec.                                                     *)
(***************************************************************************)
Promotions == {"promote", "promote_to_admin"}
Succeeded == {"Success", "SuccessAdministrative"}

\* C1: In every state of a promotion, also after a crash or cancellation
\* between its delete and its create, the original pre-authentication token
\* never resolves while the Authenticated record created from it resolves;
\* between the delete and the end of the create neither of the two resolves.
C1_PromotionNeverOverlaps ==
    /\ \A t \in Tokens :
         LET m == store[KeyOf("Authenticated", t)].made
         IN  (m.via \in Promotions /\ Resolves(GenericAuthenticatedSessionGet(store, t)))
             => ~Resolves(PreAuthenticationSessionGet(store, m.src))
    /\ \A p \in Procs :
         (loc[p].caller \in Promotions /\ pc[p] \in {"cr_loop", "cr_admin", "cr_csrf"})
         => /\ ~Resolves(PreAuthenticationSessionGet(store, loc[p].sess.token))
            /\ loc[p].cand # 0 => ~Resolves(GenericAuthenticatedSessionGet(store, loc[p].cand))

\* a promotion was abandoned between its delete and the end of its create:
\* its record is there in part, no handler is at work, neither token resolves
C1_Witness ==
    /\ \A p \in Procs : pc[p] = "idle"
    /\ \E t \in Tokens :
         LET key == KeyOf("Authenticated", t)
         IN  /\ Exists(store, key)
             /\ store[key].made.via \in Promotions
             /\ store[key].made.src # 0
             /\ ~Resolves(GenericAuthenticatedSessionGet(store, t))
             /\ ~Resolves(PreAuthenticationSessionGet(store, store[key].made.src))

\* C2: When promote or promote_to_admin has returned successfully,
\* PreAuthenticationSession::get of the original token finds nothing, and the
\* session returned has a new token that resolves under Authenticated with
\* the user_id of the pre-authentication session.
C2_PromoteReplaces ==
    out.status \in Succeeded =>
        LET new == GenericAuthenticatedSessionGet(store, out.session.token)
        IN  /\ out.old.session_info.kind = "PreAuthentication"
            /\ PreAuthenticationSessionGet(store, out.old.token) =
                 [status |-> "ok", session |-> None]
            /\ out.session.token # out.old.token
            /\ Resolves(new)
            /\ Unwrap(new.session).session.session_info.user_id =
                 out.old.session_info.user_id

\* promote has just returned a customer session for the user of the original
C2_Witness ==
    /\ out.status = "Success"
    /\ out.old.token \in Tokens
    /\ out.session.session_info.user_id = out.old.session_info.user_id

\* C4: For a user with a second factor registered when the password is
\* verified, an Authenticated record of that user exists only if
\* authenticate_2fa validated a code for a PreAuthentication session of the
\* user; authenticate answers Partial with a PreAuthentication session.
C4_SecondFactorRequired ==
    /\ \A t \in Tokens :
         LET h == store[KeyOf("Authenticated", t)]
         IN  (IsSome(h.user_id) /\ (h.made.totp0 \/ totp[Unwrap(h.user_id)]))
             => h.made.mfa
    /\ (out.op = "authenticate" /\ out.session # NoSession
          /\ totp[out.session.session_info.user_id])
       => /\ out.status = "Partial"
          /\ out.session.session_info.kind = "PreAuthentication"

\* a user with a second factor holds an Authenticated session after
\* authenticate_2fa validated the code
C4_Witness ==
    \E t \in Tokens :
        LET h == store[KeyOf("Authenticated", t)]
        IN  /\ Resolves(GenericAuthenticatedSessionGet(store, t))
            /\ totp[Unwrap(h.user_id)]
            /\ h.made.totp0
            /\ h.made.mfa

\* C6: A session produced by promote_to_admin resolves through
\* GenericAuthenticatedSession::get as Administrator and through
\* AdministratorSession::get, and CustomerSession::get does not find it; a
\* session produced by promote resolves as Customer and through
\* CustomerSession::get, and AdministratorSession::get does not find it.
C6_RoleSeparation ==
    /\ \A t \in Tokens :
         LET via == store[KeyOf("Authenticated", t)].made.via
             generic == GenericAuthenticatedSessionGet(store, t)
         IN  Resolves(generic) =>
               /\ via = "promote_to_admin" =>
                    /\ Unwrap(generic.session).variant = "Administrator"
                    /\ Resolves(AdministratorSessionGet(store, t))
                    /\ ~Resolves(CustomerSessionGet(store, t))
               /\ via = "promote" =>
                    /\ Unwrap(generic.session).variant = "Customer"
                    /\ Resolves(CustomerSessionGet(store, t))
                    /\ ~Resolves(AdministratorSessionGet(store, t))
    /\ out.status = "SuccessAdministrative" =>
         Resolves(AdministratorSessionGet(store, out.session.token))
    /\ out.status = "Success" =>
         Resolves(CustomerSessionGet(store, out.session.token))

\* promote_to_admin has just returned an administrator's session
C6_Witness ==
    /\ out.status = "SuccessAdministrative"
    /\ Resolves(AdministratorSessionGet(store, out.session.token))

\* the events of session_middleware on a request whose session resolved
Middleware == {"rejected", "next.run"}
HeaderEquals(hdr, session) ==
    hdr.present /\ hdr.ascii /\ hdr.value = session.session_info.csrf

\* C9 as stated: with a resolvable session, a missing X-CSRF-Token header or
\* one not equal to the session's csrf token is answered 419, and an equal
\* one reaches the handler.
C9_MissingOrUnequalIs419 ==
    (out.status \in Middleware /\ out.session # NoSession) =>
        IF HeaderEquals(out.hdr, out.session)
        THEN out.status = "next.run"
        ELSE out.status = "rejected" /\ out.http = STATUS_CODE_BAD_CSRF

\* C9 amended: with a resolvable session, a missing header or a visible-ASCII
\* header not equal to the session's csrf token is answered 419, a header
\* that is not visible ASCII is answered 400, and in neither case a handler
\* starts; a header equal to the csrf token starts the route's handler with
\* the session.
C9_CsrfEnforced ==
    [][(out'.status \in Middleware /\ out'.session # NoSession) =>
         IF HeaderEquals(out'.hdr, out'.session)
         THEN /\ out'.status = "next.run"
              /\ \E p \in Procs : /\ pc[p] = "idle"
                                  /\ pc'[p] = RouteHandler(out'.op)
                                  /\ loc'[p].sess = out'.session
         ELSE /\ out'.status = "rejected"
              /\ out'.http = IF out'.hdr.present /\ ~out'.hdr.ascii
                             THEN 400 ELSE STATUS_CODE_BAD_CSRF
              /\ pc' = pc]_vars

\* a request with a resolvable session and a visible-ASCII header that is
\* not the session's csrf token has been answered 419
C9_Witness ==
    /\ out.status = "rejected"
    /\ out.http = STATUS_CODE_BAD_CSRF
    /\ out.session # NoSession
    /\ out.hdr.present /\ out.hdr.ascii
    /\ out.hdr.value # out.session.session_info.csrf

\* C10: When add_credential_and_commit has stored the user record and
\* returns an error without the credential attached, no user with the
\* session's email is left without a credential.
C10_RolledBack ==
    (out.op = "POST /onboarding/credential"
       /\ out.status \in {"PasswordTooShort", "PasswordTooLong", "StorageError"})
    => \A u \in UserIds :
         (IsSome(users[u]) /\ Unwrap(users[u]).email = out.old.session_info.email)
         => IsSome(password[u])

\* C11: Every session record in the store has a time-to-live in every
\* reachable state, the states between the steps of a create and after an
\* abandoned create included: no record exists that the store never expires.
C11_EveryRecordExpires ==
    \A key \in Keys : Exists(store, key) => store[key].ttl > 0

\* C12: Between the return of its create and its deletion or expiry, no
\* step changes a field of a stored record: user_id, admin, the registration
\* data and the csrf token stay what they were, under every interleaving of
\* creates, gets, promotions, deletes and set_expiry calls.
C12_NeverMutatedInPlace ==
    [][\A key \in Keys :
         (store[key].made.won >= 1 /\ Exists(store', key))
         => \A f \in HashFields : store'[key][f] = store[key][f]]_vars

\* a handler is between Connection::create and set_expiry for the key
UnderConstruction(key) ==
    \E p \in Procs : pc[p] = "cr_expire" /\ CreateKey(p) = key

\* C16: A PreAuthentication record that is not promoted is removed by the
\* store 300 seconds after its creation: once its constructor is no longer
\* at work, a record that resolves has an expiry of at most 300 seconds
\* pending in the store, after which get on its token finds nothing.
C16_PreAuthenticationExpires ==
    \A t \in Tokens :
        LET key == KeyOf("PreAuthentication", t)
        IN  (Resolves(PreAuthenticationSessionGet(store, t)) /\ ~UnderConstruction(key))
            => /\ store[key].ttl > 0
               /\ store[key].ttl <= PREAUTH_SESSION_TIMEOUT

\* the time-to-live of each kind of record
KindTimeout(info) ==
    CASE info.kind = "Registration" -> REGISTRATION_SESSION_TIMEOUT
      [] info.kind = "PreAuthentication" -> PREAUTH_SESSION_TIMEOUT
      [] info.kind = "Authenticated" ->
           IF info.admin THEN ADMIN_SESSION_TIMEOUT ELSE SESSION_TIMEOUT

\* C17: When a session constructor returns successfully, the time-to-live of
\* the record it made is the constant of its kind: 600 seconds for
\* Registration, 300 for PreAuthentication, 604800 for an Authenticated
\* record made by promote and 7200 for one made by promote_to_admin.
C17_ConstructorSetsTimeout ==
    [][\A p \in Procs :
         (/\ pc[p] = "cr_expire"
          /\ pc'[p] # "cr_expire"
          /\ ~(pc'[p] = "idle" /\ out' = NoOut))
         => /\ store'[CreateKey(p)].ttl = KindTimeout(loc[p].info)
            /\ loc[p].caller = "promote" => ~loc[p].info.admin
            /\ loc[p].caller = "promote_to_admin" => loc[p].info.admin]_vars

\* promote_to_admin has just returned a session whose record expires in
\* 7200 seconds, while a pre-authentication record expires in 300
C17_Witness ==
    /\ out.status = "SuccessAdministrative"
    /\ store[KeyOf("Authenticated", out.session.token)].ttl = ADMIN_SESSION_TIMEOUT
    /\ \E t \in Tokens :
         store[KeyOf("PreAuthentication", t)].ttl = PREAUTH_SESSION_TIMEOUT

\* the results with which a create hands a session to its caller
Created == {"Ok", "Partial", "Success", "SuccessAdministrative"}
\* the typed get for a session of this kind and admin flag
VariantOf(info) ==
    IF info.kind = "Authenticated"
    THEN (IF info.admin THEN "Administrator" ELSE "Customer")
    ELSE info.kind

\* C18: Round trip: when a create has returned a session for a payload and
\* the record has not been deleted or expired, get of the session's kind on
\* the returned token returns a record with the payload and the csrf token
\* the create was given.
C18_RoundTrip ==
    (/\ out.status \in Created
     /\ out.session # NoSession
     /\ store[KeyOf(out.session.session_info.kind, out.session.token)].made.won >= 1) =>
        LET info == out.session.session_info
        IN  /\ BaseSessionGet(store, out.session.token, info.kind)
                 = [status |-> "ok", session |-> Some(out.session)]
            /\ SessionGet(VariantOf(info), store, out.session.token)
                 = [status |-> "ok",
                    session |-> Some(Typed(VariantOf(info), out.session))]

\* the fields a record of each kind is made of
RequiredFields(session_type) ==
    CASE session_type = "PreAuthentication" -> {"user_id", "csrf"}
      [] session_type = "Authenticated" -> {"user_id", "admin", "csrf"}
      [] session_type = "Registration" ->
           {"email", "forename", "surname", "address", "csrf"}

\* C19: get never returns a partial record: for every kind and token, when a
\* required field of the namespaced key is absent, also while a create has
\* written only some of the fields, get returns not found: no error and no
\* record built from the fields present.
C19_PartialIsNotFound ==
    \A session_type \in SessionTypes, t \in Tokens :
        (\E f \in RequiredFields(session_type) :
             ~IsSome(Hget(store, KeyOf(session_type, t), f)))
        => BaseSessionGet(store, t, session_type) = [status |-> "ok", session |-> None]

(***************************************************************************)
(* SpecToken: generate_token as the string it builds.  token_buf is filled *)
(* by getrandom::fill; the fold takes its bytes one at a time and appends  *)
(* write!(acc, "{x:x}") of each.  The buffers followed hold one byte value *)
(* everywhere but at up to MaxVaried positions, which hold any of          *)
(* ByteSamples.                                                            *)
(***************************************************************************)
TokenBytes == 24    \* token_buf: [u8; 24]
MaxVaried == 1      \* positions of the buffer that hold a sampled byte
Filler == 171       \* 0xab
ByteSamples == {0, 9, 10, 15, 16, 255}

HexDigits == <<"0", "1", "2", "3", "4", "5", "6", "7", "8", "9",
               "a", "b", "c", "d", "e", "f">>
HexChars == {HexDigits[i] : i \in 1..16}

\* the digits of n in base 16, most significant first, none for 0
RECURSIVE HexOf(_)
HexOf(n) == IF n = 0 THEN <<>> ELSE Append(HexOf(n \div 16), HexDigits[(n % 16) + 1])

\* format!("{x:x}") of a u8: lower-case hexadecimal, no width, no padding
LowerHex(x) == IF x = 0 THEN <<"0">> ELSE HexOf(x)

\* a buffer as getrandom::fill can leave it
Buffers ==
    {[i \in 1..TokenBytes |->
        IF \E j \in 1..MaxVaried : at[j] = i
        THEN val[CHOOSE j \in 1..MaxVaried : at[j] = i]
        ELSE Filler]
       : at \in [1..MaxVaried -> 0..TokenBytes], val \in [1..MaxVaried -> ByteSamples]}

InitToken ==
    /\ token_buf \in Buffers
    /\ acc = <<>>
    /\ store = [k \in Keys |-> NoHash]
    /\ users = [u \in UserIds |->
                  IF u = 1 THEN Some(UserRow(EmailA, "n", "n", "n", "Customer")) ELSE None]
    /\ password = [u \in UserIds |-> IF u = 1 THEN Some("pw8") ELSE None]
    /\ totp = [u \in UserIds |-> FALSE]
    /\ lastId = 1
    /\ pc = [p \in Procs |-> "idle"]
    /\ loc = [p \in Procs |-> Idle]
    /\ out = NoOut
    /\ drawn = 0
    /\ issued = {}
    /\ arrived = 0
    /\ bf = NoCounter
    /\ clock = NoHistory

\* one turn of token_buf.into_iter().fold(String::new(), ..)
generate_tokenFold ==
    /\ token_buf # <<>>
    /\ LET x == Head(token_buf)
       IN  acc' = acc \o LowerHex(x)
    /\ token_buf' = Tail(token_buf)
    /\ UNCHANGED <<store, dbvars, pc, loc, out, drawn, issued, arrived, guardvars>>

NextToken == generate_tokenFold

SpecToken == InitToken /\ [][NextToken]_vars

\* C20: generate_token always returns a string of exactly 48 hexadecimal
\* characters, whatever the 24 random bytes are.
C20_TokenIs48HexChars ==
    (token_buf = <<>> /\ acc # <<>>) =>
        /\ Len(acc) = 48
        /\ \A i \in 1..Len(acc) : acc[i] \in HexChars

(***************************************************************************)
(* SpecLogin: authenticate with two registered users, the email of the     *)
(* first being a part of the email of the second.  (Both can register:     *)
(* signup_init's search for the longer email does not match the shorter.)  *)
(***************************************************************************)
InitLogin ==
    /\ store = [k \in Keys |-> NoHash]
    /\ \E role \in Roles :
         users = [u \in UserIds |->
                    CASE u = 1 -> Some(UserRow(EmailA, "n", "n", "n", role))
                      [] u = 2 -> Some(UserRow(EmailBA, "n", "n", "n", "Customer"))
                      [] OTHER -> None]
    /\ password = [u \in UserIds |->
                     CASE u = 1 -> Some("pw8") [] u = 2 -> Some("pw9") [] OTHER -> None]
    /\ totp \in {[u \in UserIds |-> u = 1 /\ b] : b \in BOOLEAN}
    /\ lastId = 2
    /\ pc = [p \in Procs |-> "idle"]
    /\ loc = [p \in Procs |-> Idle]
    /\ out = NoOut
    /\ drawn = 0
    /\ issued = {}
    /\ arrived = 0
    /\ bf = NoCounter
    /\ clock = NoHistory
    /\ token_buf = <<>>
    /\ acc = <<>>

NextLogin ==
    \/ \E p \in Procs :
         \/ authenticate(p)
         \/ AuthenticateSecondFactor(p)
         \/ BaseSessionCreate(p)
         \/ StoreAdmin(p)
         \/ StoreCsrf(p)
         \/ SetExpiry(p)
         \/ promote(p)
         \/ promote_to_admin(p)
         \/ Abandoned(p)
    \/ \E key \in Keys : Expired(key)

SpecLogin == InitLogin /\ [][NextLogin]_vars

\* the registered users with exactly this email whose password this is
Known(email, pw) ==
    {u \in UserIds : /\ IsSome(users[u])
                     /\ Unwrap(users[u]).email = email
                     /\ password[u] = Some(pw)}

\* C13: authenticate with a known email and a correct primary credential is
\* not answered Failure: it returns Success with an Authenticated session
\* whose is_admin is false for a Customer without a second factor,
\* SuccessAdministrative with one whose is_admin is true for an Administrator
\* without a second factor, and Partial for a user with a second factor.
C13_AuthenticateOutcome ==
    out.op = "authenticate" =>
        LET user_id == out.session.session_info.user_id
            info == out.session.session_info
        IN  /\ out.status = "Failure" => Known(out.email, out.pw) = {}
            /\ out.status = "Success" =>
                 /\ Unwrap(users[user_id]).role = "Customer" /\ ~totp[user_id]
                 /\ info.kind = "Authenticated" /\ ~info.admin
            /\ out.status = "SuccessAdministrative" =>
                 /\ Unwrap(users[user_id]).role = "Administrator" /\ ~totp[user_id]
                 /\ info.kind = "Authenticated" /\ info.admin
            /\ out.status = "Partial" =>
                 /\ totp[user_id]
                 /\ info.kind = "PreAuthentication"

\* C14: The step in which authenticate returns Failure, for an email no user
\* has or a credential that does not verify, leaves the session store as it
\* was and starts no create: no PreAuthentication or Authenticated record
\* has been made for the request.
C14_FailureCreatesNothing ==
    [][(out'.op = "authenticate" /\ out'.status = "Failure")
       => /\ store' = store
          /\ pc' = pc
          /\ drawn' = drawn]_vars

\* authenticate has just answered Failure to a known email with a password
\* that does not verify, while the store holds a session made earlier
C14_Witness ==
    /\ out.op = "authenticate"
    /\ out.status = "Failure"
    /\ AppUserSearch(out.email) # {}
    /\ Known(out.email, out.pw) = {}
    /\ \E key \in Keys : Exists(store, key)

(***************************************************************************)
(* SpecSecondFactor: the requests that follow an authenticate answered     *)
(* Partial.  The user has a second factor; the pre-authentication session  *)
(* (token 2, csrf token 1) is in the store with its time-to-live and its   *)
(* cookies are with the client.                                            *)
(***************************************************************************)
InitSecondFactor ==
    /\ store = [k \in Keys |->
                  IF k = KeyOf("PreAuthentication", 2)
                  THEN [NoHash EXCEPT !.user_id = Some(1), !.csrf = Some(1),
                                      !.ttl = PREAUTH_SESSION_TIMEOUT,
                                      !.made = [NotMade EXCEPT
                                                  !.kind = "PreAuthentication",
                                                  !.via = "PreAuthenticationSession::create",
                                                  !.totp0 = TRUE, !.won = 1]]
                  ELSE NoHash]
    /\ \E role \in Roles :
         users = [u \in UserIds |->
                    IF u = 1 THEN Some(UserRow(EmailA, "n", "n", "n", role)) ELSE None]
    /\ password = [u \in UserIds |-> IF u = 1 THEN Some("pw8") ELSE None]
    /\ totp = [u \in UserIds |-> u = 1]
    /\ lastId = 1
    /\ pc = [p \in Procs |-> "idle"]
    /\ loc = [p \in Procs |-> Idle]
    /\ out = NoOut
    /\ drawn = 2
    /\ issued = {[session |-> 2, session_csrf |-> 1]}
    /\ arrived = 0
    /\ bf = NoCounter
    /\ clock = NoHistory
    /\ token_buf = <<>>
    /\ acc = <<>>

NextSecondFactor ==
    \/ \E p \in Procs :
         \/ Request(p)
         \/ authenticate_2fa(p)
         \/ promote(p)
         \/ promote_to_admin(p)
         \/ BaseSessionCreate(p)
         \/ StoreAdmin(p)
         \/ StoreCsrf(p)
         \/ SetExpiry(p)
         \/ logout(p)
         \/ Abandoned(p)
    \/ \E key \in Keys : Expired(key)

SpecSecondFactor == InitSecondFactor /\ [][NextSecondFactor]_vars

\* C15: The step in which authenticate_2fa answers Failure changes no field
\* and no time-to-live of any record: the token resolves under
\* PreAuthentication after the step as it did before, to the user_id and csrf
\* token of the session the attempt was made with.  An attempt with a correct
\* code is never answered Failure while the user's second factor is
\* registered, whether or not attempts on the token have failed before.
C15_FailedAttemptKeepsSession ==
    /\ [][(out'.op = "POST /auth/2fa" /\ out'.status = "Failure")
          => LET before == PreAuthenticationSessionGet(store, out'.old.token)
                 after == PreAuthenticationSessionGet(store', out'.old.token)
             IN  /\ \A key \in Keys :
                      /\ \A f \in HashFields : store'[key][f] = store[key][f]
                      /\ store'[key].ttl = store[key].ttl
                 /\ after = before
                 /\ Resolves(after) => Unwrap(after.session).session = out'.old]_vars
    /\ []((out.op = "POST /auth/2fa" /\ out.status = "Failure"
             /\ totp[out.old.session_info.user_id])
          => out.code # "current")

\* a second attempt on a token, with the correct code, has just succeeded
\* after an attempt on the same token was answered Failure
C15_Witness ==
    /\ out.op = "POST /auth/2fa"
    /\ out.status \in Succeeded
    /\ out.old.token = 2
    /\ store[KeyOf("Authenticated", out.session.token)].made.tried
    /\ store[KeyOf("Authenticated", out.session.token)].made.src = out.old.token

(***************************************************************************)
(* SpecLogout: the requests of a user who is logged in.  The user has a    *)
(* second factor and has passed it: the pre-authentication session (token  *)
(* 2, csrf token 1) was promoted to the Authenticated session in the store *)
(* (token 4, csrf token 3); the client was handed the cookies of both.     *)
(* Requests to the guarded routes and further logins of the user arrive.   *)
(***************************************************************************)
InitLogout ==
    /\ \E role \in Roles :
         /\ users = [u \in UserIds |->
                       IF u = 1 THEN Some(UserRow(EmailA, "n", "n", "n", role)) ELSE None]
         /\ store = [k \in Keys |->
                       IF k = KeyOf("Authenticated", 4)
                       THEN [NoHash EXCEPT
                               !.user_id = Some(1), !.csrf = Some(3),
                               !.admin = Some(role = "Administrator"),
                               !.ttl = TimeoutOf(PromotionFor(role)),
                               !.made = [NotMade EXCEPT
                                           !.kind = "Authenticated",
                                           !.via = PromotionFor(role), !.src = 2,
                                           !.totp0 = TRUE, !.mfa = TRUE, !.won = 1]]
                       ELSE NoHash]
    /\ password = [u \in UserIds |-> IF u = 1 THEN Some("pw8") ELSE None]
    /\ totp = [u \in UserIds |-> u = 1]
    /\ lastId = 1
    /\ pc = [p \in Procs |-> "idle"]
    /\ loc = [p \in Procs |-> Idle]
    /\ out = NoOut
    /\ drawn = 4
    /\ issued = {[session |-> 2, session_csrf |-> 1], [session |-> 4, session_csrf |-> 3]}
    /\ arrived = 0
    /\ bf = NoCounter
    /\ clock = NoHistory
    /\ token_buf = <<>>
    /\ acc = <<>>

NextLogout ==
    \/ \E p \in Procs :
         \/ Request(p)
         \/ logout(p)
         \/ authenticate(p)
         \/ BaseSessionCreate(p)
         \/ StoreCsrf(p)
         \/ SetExpiry(p)
         \/ AuthenticateSecondFactor(p)
         \/ Abandoned(p)
    \/ \E key \in Keys : Expired(key)

SpecLogout == InitLogout /\ [][NextLogout]_vars

AuthenticatedVariants == {"Customer", "Administrator", "Generic"}

\* C21: Once logout's delete has returned successfully for the session of a
\* token, get of that token returns not found ever after, through
\* CustomerSession, AdministratorSession and GenericAuthenticatedSession
\* alike.
C21_LogoutInvalidates ==
    \A t \in Tokens :
        []((out.op = "DELETE /auth" /\ out.status = "Ok" /\ out.old.token = t)
           => [](\A variant \in AuthenticatedVariants :
                    SessionGet(variant, store, t) = [status |-> "ok", session |-> None]))

\* logout has just returned for a session that resolved until then, while
\* another request is at work
C21_Witness ==
    /\ out.op = "DELETE /auth"
    /\ out.status = "Ok"
    /\ out.old.session_info.kind = "Authenticated"
    /\ ~Resolves(GenericAuthenticatedSessionGet(store, out.old.token))
    /\ \E p \in Procs : pc[p] # "idle"

\* C22: Delete is idempotent: a delete of a token whose key is not in the
\* store (never created, deleted before, expired) returns Ok and leaves the
\* store as it was, and in every reachable store a delete performed twice
\* leaves what the delete performed once leaves.
C22_DeleteIdempotent ==
    /\ [](\A session_type \in SessionTypes, t \in Tokens :
            LET once == ConnectionDelete(store, t, session_type)
                twice == ConnectionDelete(once.store, t, session_type)
            IN  /\ once.status = "ok" /\ twice.status = "ok"
                /\ twice.store = once.store
                /\ ~Exists(store, KeyOf(session_type, t)) => once.store = store)
    /\ [][\A p \in Procs :
            (pc[p] = "lo_delete" /\ pc'[p] = "idle" /\ out'.op = "DELETE /auth")
            => /\ out'.status = "Ok"
               /\ ~Exists(store', KeyOf("Authenticated", loc[p].sess.token))
               /\ out'.removed = 0 => store' = store]_vars

\* a second logout of one session has just returned Ok after its DEL found
\* the key gone
C22_Witness ==
    /\ out.op = "DELETE /auth"
    /\ out.status = "Ok"
    /\ out.removed = 0
    /\ out.old.session_info.kind = "Authenticated"

\* the X-CSRF-Token headers a request can carry
Headers == {NoHeader, NonAsciiHeader} \cup {AsciiHeader(v) : v \in 0..MaxTokens}

\* no create has drawn the token: it never existed
NeverExisted(t) == t > drawn
\* the token was drawn, and no namespace holds a key of it: its record
\* expired or was deleted
Gone(t) == t <= drawn /\ \A session_type \in SessionTypes : ~Exists(store, KeyOf(session_type, t))
\* the token belongs to a record of another kind than the variant reads, or
\* to an Authenticated record of the other role
WrongKind(variant, t) ==
    \/ /\ ~Exists(store, KeyOf(KindOf(variant), t))
       /\ \E other \in SessionTypes \ {KindOf(variant)} :
            Resolves(BaseSessionGet(store, t, other))
    \/ /\ variant \in {"Customer", "Administrator"}
       /\ Resolves(GenericAuthenticatedSessionGet(store, t))
       /\ Unwrap(GenericAuthenticatedSessionGet(store, t).session).variant # variant

\* C23: A request whose token never existed, whose record expired or was
\* deleted, or whose record is of another kind or role than the route's
\* session type is answered alike in the three cases: get returns Ok(None)
\* and session_middleware answers 401, whatever header the request carries.
C23_UnresolvedAlike ==
    \A variant \in Variants, t \in Tokens :
        (NeverExisted(t) \/ Gone(t) \/ WrongKind(variant, t)) =>
            LET got == SessionGet(variant, store, t)
            IN  /\ got = [status |-> "ok", session |-> None]
                /\ \A hdr \in Headers : session_middleware(got, hdr) = 401

\* the 2fa route has just answered 401 while the store holds an
\* Authenticated session (another kind than the route's), the
\* pre-authentication record it was promoted from is gone, and a token is
\* left that no create has drawn
C23_Witness ==
    /\ out.op = "POST /auth/2fa"
    /\ out.status = "rejected"
    /\ out.http = 401
    /\ \E t \in Tokens :
         /\ WrongKind("PreAuthentication", t)
         /\ store[KeyOf("Authenticated", t)].made.src \in Tokens
         /\ Gone(store[KeyOf("Authenticated", t)].made.src)
    /\ \E t \in Tokens : NeverExisted(t)

(***************************************************************************)
(* SpecBaseCreate: BaseSession::create called by concurrent callers, one   *)
(* Redis command a step.  generate_token returns any of CreateTokens, so   *)
(* that candidates collide with records in the store and with each other;  *)
(* any command of Connection::create can fail.                             *)
(***************************************************************************)
\* a caller enters BaseSession::create(session_info)
BaseSessionCreateCall(p) ==
    /\ Arrives(p)
    /\ \E session_info \in CreateInfos :
         Goto(p, "cr_loop", [Idle EXCEPT !.op = "BaseSession::create",
                                         !.caller = "BaseSession::create",
                                         !.info = session_info])
    /\ UNCHANGED <<store, dbvars, drawn, issued, guardvars, rngvars>>

\* BaseSession::create: let candidate = generate_token(), and the call of
\* Connection::create with it
BaseSessionCreateCandidate(p) ==
    /\ pc[p] = "cr_loop"
    /\ \E candidate \in CreateTokens : Goto(p, "cr_exists", [loc[p] EXCEPT !.cand = candidate])
    /\ UNCHANGED <<store, dbvars, drawn, issued, arrived, guardvars, rngvars>>

\* a command of Connection::create fails: its RedisError becomes
\* SessionCreationError::StorageError by ?, BaseSession::create returns
\* Err(error), and From<SessionStorageError> for HttpError answers 500
CreateStorageError(p) ==
    /\ pc[p] \in {"cr_exists", "cr_nx", "cr_get", "cr_admin", "cr_csrf", "cr_multi"}
    /\ Return(p, Outcome(p, "StorageError", 500))
    /\ UNCHANGED <<store, dbvars, drawn, issued, arrived, guardvars, rngvars>>

NextBaseCreate ==
    \E p \in Procs :
        \/ BaseSessionCreateCall(p)
        \/ BaseSessionCreateCandidate(p)
        \/ StoreExists(p)
        \/ StoreFirstField(p)
        \/ StoreCheckField(p)
        \/ StoreAdmin(p)
        \/ StoreCsrf(p)
        \/ StoreRegistrationFields(p)
        \/ CreateStorageError(p)

SpecBaseCreate == InitCreate /\ [][NextBaseCreate]_vars

\* Connection::create is about to answer Duplicate: its EXISTS finds the key,
\* or the field it reads back is not the one it wrote
DuplicateAt(p) ==
    \/ pc[p] = "cr_exists" /\ Exists(store, CreateKey(p))
    \/ /\ pc[p] = "cr_get"
       /\ IsSome(Hget(store, CreateKey(p), FirstField(loc[p].info)))
       /\ Unwrap(Hget(store, CreateKey(p), FirstField(loc[p].info))) # FirstValue(loc[p].info)

\* C24: BaseSession::create never returns Duplicate: the step in which
\* Connection::create finds a duplicate takes the caller back to the head of
\* the loop with the candidate discarded, and the next step draws a new
\* candidate.  The step in which a command fails ends the call at once with
\* the error, which the HTTP layer reports as 500; nothing is retried.
C24_DuplicateRetriedFailureReturned ==
    /\ [](out.op = "BaseSession::create" => out.status \in {"Ok", "StorageError"})
    /\ [][\A p \in Procs :
            /\ (DuplicateAt(p) /\ pc'[p] # pc[p])
               => \/ /\ pc'[p] = "cr_loop"
                     /\ loc'[p] = [loc[p] EXCEPT !.cand = 0, !.retried = TRUE]
                     /\ out' = NoOut
                  \/ out'.status = "StorageError"
            /\ (pc[p] = "cr_loop" /\ pc'[p] # pc[p])
               => pc'[p] = "cr_exists" /\ loc'[p].cand \in CreateTokens
            /\ (pc[p] # "idle" /\ out'.status = "StorageError" /\ pc'[p] # pc[p])
               => /\ out'.http = 500
                  /\ pc'[p] = "idle"
                  /\ store' = store]_vars

\* a create is back at the head of the loop after a Duplicate, its candidate
\* discarded, while a record of its kind is in the store and the create
\* beside it has ended
C24_Witness ==
    /\ \E p \in Procs :
         /\ pc[p] = "cr_loop"
         /\ loc[p].caller = "BaseSession::create"
         /\ loc[p].retried
         /\ loc[p].cand = 0
         /\ \E t \in CreateTokens : Exists(store, KeyOf(loc[p].info.kind, t))
    /\ \E q \in Procs : pc[q] = "idle" /\ arrived = MaxRequests

(***************************************************************************)
(* SpecLoginRoute: the /auth route's login, from the X-Real-IP header      *)
(* through bruteforce_timeout to authenticate and the session it returns.  *)
(* The client's address has made no call yet, or three within the timeout  *)
(* period.                                                                 *)
(***************************************************************************)
\* the X-Real-IP header of a request: absent, not visible ASCII, or the
\* client's address
RealIps == {NoHeader, NonAsciiHeader, AsciiHeader(1)}

\* a login that goes on to authenticate without the guard when the header is
\* missing
loginUnguarded(p) ==
    /\ Arrives(p)
    /\ \E ip \in RealIps, pw \in {"pw8", "pw7"} :
         LET me == [Idle EXCEPT !.op = "POST /auth", !.ip = ip, !.email = EmailA, !.pw = pw]
         IN  IF ~ip.present \/ ~ip.ascii
             THEN Goto(p, "lg_auth", me) /\ UNCHANGED <<bf, clock>>
             ELSE /\ bf' = [bf EXCEPT !.count = @ + 1]
                  /\ clock' = [clock EXCEPT !.calls = @ + 1,
                                            !.since = IF clock.calls + 1 = AUTH_TIMEOUT_ATTEMPTS
                                                      THEN 0 ELSE @]
                  /\ Goto(p, "lg_expire", [me EXCEPT !.attempts = bf.count + 1,
                                                     !.nth = clock.calls + 1])
    /\ UNCHANGED <<store, dbvars, drawn, issued, rngvars>>
\* login: headers.get("x-real-ip").ok_or_else(..)?.to_str().map_err(..)?, and
\* the incr of bruteforce_timeout(client_ip)
login(p) ==
    /\ Arrives(p)
    /\ \E ip \in RealIps, pw \in {"pw8", "pw7"} :
         LET me == [Idle EXCEPT !.op = "POST /auth", !.ip = ip, !.email = EmailA, !.pw = pw]
         IN  IF ~ip.present \/ ~ip.ascii
             THEN /\ Return(p, [NoOut EXCEPT !.op = "POST /auth", !.status = "rejected",
                                             !.http = 400, !.hdr = ip])
                  /\ UNCHANGED <<bf, clock>>
             ELSE /\ bf' = [bf EXCEPT !.count = @ + 1]
                  /\ clock' = [clock EXCEPT !.calls = @ + 1,
                                            !.since = IF clock.calls + 1 = AUTH_TIMEOUT_ATTEMPTS
                                                      THEN 0 ELSE @]
                  /\ Goto(p, "lg_expire", [me EXCEPT !.attempts = bf.count + 1,
                                                     !.nth = clock.calls + 1])
    /\ UNCHANGED <<store, dbvars, drawn, issued, rngvars>>

\* a login that looks at the credentials of an attempt the guard denies and
\* lets a correct one through
loginGuardVerifying(p) ==
    /\ pc[p] = "lg_expire"
    /\ LET seconds == IF TimedOut(loc[p].attempts)
                      THEN AUTH_PENALTY_PERIOD ELSE AUTH_TIMEOUT_PERIOD
       IN  bf' = IF bf.count > 0 THEN [bf EXCEPT !.ttl = seconds] ELSE bf
    /\ clock' = [clock EXCEPT !.last = 0]
    /\ IF TimedOut(loc[p].attempts) /\ loc[p].pw # "pw8"
       THEN Return(p, [NoOut EXCEPT !.op = "POST /auth", !.status = "deny", !.http = 429,
                                   !.nth = loc[p].nth, !.email = loc[p].email,
                                   !.pw = loc[p].pw])
       ELSE Goto(p, "lg_auth", loc[p])
    /\ UNCHANGED <<store, dbvars, drawn, issued, arrived, rngvars>>
\* login: the expire of bruteforce_timeout, and 429 when it answers true
loginGuard(p) ==
    /\ pc[p] = "lg_expire"
    /\ LET seconds == IF TimedOut(loc[p].attempts)
                      THEN AUTH_PENALTY_PERIOD ELSE AUTH_TIMEOUT_PERIOD
       IN  bf' = IF bf.count > 0 THEN [bf EXCEPT !.ttl = seconds] ELSE bf
    /\ clock' = [clock EXCEPT !.last = 0]
    /\ IF TimedOut(loc[p].attempts)
       THEN Return(p, [NoOut EXCEPT !.op = "POST /auth", !.status = "deny", !.http = 429,
                                   !.nth = loc[p].nth, !.email = loc[p].email,
                                   !.pw = loc[p].pw])
       ELSE Goto(p, "lg_auth", loc[p])
    /\ UNCHANGED <<store, dbvars, drawn, issued, arrived, rngvars>>

\* login: auth::authenticate(body.email, body.credential, ..)
loginAuthenticate(p) ==
    /\ pc[p] = "lg_auth"
    /\ Authenticate(p, [Idle EXCEPT !.op = "authenticate", !.ip = loc[p].ip,
                                    !.attempts = loc[p].attempts, !.nth = loc[p].nth],
                    loc[p].email, loc[p].pw)
    /\ UNCHANGED <<dbvars, issued, arrived, guardvars, rngvars>>

InitLoginRoute ==
    /\ store = [k \in Keys |-> NoHash]
    /\ \E role \in Roles :
         users = [u \in UserIds |->
                    IF u = 1 THEN Some(UserRow(EmailA, "n", "n", "n", role)) ELSE None]
    /\ password = [u \in UserIds |-> IF u = 1 THEN Some("pw8") ELSE None]
    /\ totp \in {[u \in UserIds |-> u = 1 /\ b] : b \in BOOLEAN}
    /\ lastId = 1
    /\ pc = [p \in Procs |-> "idle"]
    /\ loc = [p \in Procs |-> Idle]
    /\ out = NoOut
    /\ drawn = 0
    /\ issued = {}
    /\ arrived = 0
    /\ \E before \in {0, AUTH_TIMEOUT_ATTEMPTS - 2} :
         /\ bf = IF before = 0 THEN NoCounter
                 ELSE [count |-> before, ttl |-> AUTH_TIMEOUT_PERIOD]
         /\ clock = [NoHistory EXCEPT !.calls = before]
    /\ token_buf = <<>>
    /\ acc = <<>>

NextLoginRoute ==
    \/ \E p \in Procs :
         \/ login(p)
         \/ loginGuard(p)
         \/ loginAuthenticate(p)
         \/ BaseSessionCreate(p)
         \/ StoreAdmin(p)
         \/ StoreCsrf(p)
         \/ SetExpiry(p)
         \/ AuthenticateSecondFactor(p)
         \/ promote(p)
         \/ promote_to_admin(p)
         \/ Abandoned(p)
    \/ \E key \in Keys : Expired(key)

SpecLoginRoute == InitLoginRoute /\ [][NextLoginRoute]_vars

\* C25: The step that answers a login request without a usable X-Real-IP
\* header answers 400 and leaves the bruteforce counter, the session store
\* and every handler as they were.  No handler is ever at work on a login
\* whose request lacked the header or whose call of bruteforce_timeout has
\* not incremented the counter, and none is past the guard unless the guard
\* allowed the attempt.
C25_HeaderBeforeGuard ==
    /\ [][(out'.op = "POST /auth" /\ out'.status = "rejected")
          => /\ out'.http = 400
             /\ ~out'.hdr.present \/ ~out'.hdr.ascii
             /\ bf' = bf /\ store' = store /\ drawn' = drawn /\ pc' = pc]_vars
    /\ [](\A p \in Procs :
            /\ pc[p] # "idle" => /\ loc[p].ip.present /\ loc[p].ip.ascii
                                 /\ loc[p].attempts >= 1
            /\ pc[p] \notin {"idle", "lg_expire"} => ~TimedOut(loc[p].attempts))

\* a login request without the header has just been answered 400, after
\* another login of the client went through the guard and left a session
C25_Witness ==
    /\ out.op = "POST /auth"
    /\ out.http = 400
    /\ ~out.hdr.present
    /\ bf.count = clock.calls
    /\ \E t \in Tokens : Resolves(GenericAuthenticatedSessionGet(store, t))

(***************************************************************************)
(* SpecCommit: the requests that follow a signup_init.  The registration   *)
(* session of ba@x (token 2, csrf token 1) is in the store with its        *)
(* time-to-live and its cookies are with the client, who sends requests    *)
(* with a password, one after another or at once.                          *)
(***************************************************************************)
InitCommit ==
    /\ store = [k \in Keys |->
                  IF k = KeyOf("Registration", 2)
                  THEN [NoHash EXCEPT !.email = Some(EmailBA), !.forename = Some("n"),
                                      !.surname = Some("n"), !.address = Some("n"),
                                      !.csrf = Some(1),
                                      !.ttl = REGISTRATION_SESSION_TIMEOUT,
                                      !.made = [NotMade EXCEPT
                                                  !.kind = "Registration",
                                                  !.via = "RegistrationSession::create",
                                                  !.won = 1]]
                  ELSE NoHash]
    /\ users = [u \in UserIds |->
                  IF u = 1 THEN Some(UserRow(EmailA, "n", "n", "n", "Customer")) ELSE None]
    /\ password = [u \in UserIds |-> IF u = 1 THEN Some("pw8") ELSE None]
    /\ totp = [u \in UserIds |-> FALSE]
    /\ lastId = 1
    /\ pc = [p \in Procs |-> "idle"]
    /\ loc = [p \in Procs |-> Idle]
    /\ out = NoOut
    /\ drawn = 2
    /\ issued = {[session |-> 2, session_csrf |-> 1]}
    /\ arrived = 0
    /\ bf = NoCounter
    /\ clock = NoHistory
    /\ token_buf = <<>>
    /\ acc = <<>>

NextCommit ==
    \/ \E p \in Procs :
         \/ Request(p)
         \/ AddCredentialStoreUser(p)
         \/ AddCredentialStorePassword(p)
         \/ AddCredentialRollback(p)
         \/ AddCredentialDeleteSession(p)
         \/ Abandoned(p)
    \/ \E key \in Keys : Expired(key)

SpecCommit == InitCommit /\ [][NextCommit]_vars

\* add_credential_and_commit has returned Ok for the session
Committed(o) == o.op = "POST /onboarding/credential" /\ o.status = "Ok"

StoreAwaits == {"cr_loop", "cr_admin", "cr_csrf", "cr_expire", "au_totp", "pr_delete",
                "fa_user"}

\* a command whose error is unwrapped where it is awaited
StorageFailureUnwrapped(p) ==
    /\ pc[p] \in StoreAwaits
    /\ Return(p, Outcome(p, "panic", 0))
    /\ UNCHANGED <<store, dbvars, drawn, issued, arrived, guardvars, rngvars>>
\* the Redis command or the query the handler awaits returns Err: ? hands it
\* up as SessionStorageError / StorageError through every caller, and the
\* route answers 500
StorageFailure(p) ==
    /\ pc[p] \in StoreAwaits
    /\ Return(p, Outcome(p, "StorageError", 500))
    /\ UNCHANGED <<store, dbvars, drawn, issued, arrived, guardvars, rngvars>>

\* AppUser::search of authenticate returns Err
authenticateStorageFailure(p) ==
    /\ Arrives(p)
    /\ Return(p, [NoOut EXCEPT !.op = "authenticate", !.status = "StorageError",
                               !.http = 500])
    /\ UNCHANGED <<store, dbvars, drawn, issued, guardvars, rngvars>>

InitStoreFailure ==
    /\ store = [k \in Keys |->
                  IF k = KeyOf("PreAuthentication", 2)
                  THEN [NoHash EXCEPT !.user_id = Some(1), !.csrf = Some(1),
                                      !.ttl = PREAUTH_SESSION_TIMEOUT,
                                      !.made = [NotMade EXCEPT
                                                  !.kind = "PreAuthentication",
                                                  !.via = "PreAuthenticationSession::create",
                                                  !.totp0 = TRUE, !.won = 1]]
                  ELSE NoHash]
    /\ \E role \in Roles, deleted \in BOOLEAN :
         /\ users = [u \in UserIds |->
                       CASE u = 1 /\ ~deleted -> Some(UserRow(EmailA, "n", "n", "n", role))
                         [] u = 2 -> Some(UserRow(EmailBA, "n", "n", "n", "Customer"))
                         [] OTHER -> None]
         /\ password = [u \in UserIds |->
                          CASE u = 1 /\ ~deleted -> Some("pw8")
                            [] u = 2 -> Some("pw9")
                            [] OTHER -> None]
         /\ totp = [u \in UserIds |-> u = 1 /\ ~deleted]
    /\ lastId = 2
    /\ pc = [p \in Procs |-> "idle"]
    /\ loc = [p \in Procs |-> Idle]
    /\ out = NoOut
    /\ drawn = 2
    /\ issued = {[session |-> 2, session_csrf |-> 1]}
    /\ arrived = 0
    /\ bf = NoCounter
    /\ clock = NoHistory
    /\ token_buf = <<>>
    /\ acc = <<>>

NextStoreFailure ==
    \/ \E p \in Procs :
         \/ authenticate(p)
         \/ authenticateStorageFailure(p)
         \/ AuthenticateSecondFactor(p)
         \/ Request(p)
         \/ authenticate_2fa(p)
         \/ promote(p)
         \/ promote_to_admin(p)
         \/ BaseSessionCreate(p)
         \/ StoreAdmin(p)
         \/ StoreCsrf(p)
         \/ SetExpiry(p)
         \/ logout(p)
         \/ StorageFailure(p)
    \/ \E key \in Keys : Expired(key)

SpecStoreFailure == InitStoreFailure /\ [][NextStoreFailure]_vars

\* the outcomes authenticate and authenticate_2fa return as values
ReturnedValues == {"Success", "SuccessAdministrative", "Partial", "Failure", "StorageError"}

\* C27: Every return of authenticate and of authenticate_2fa, with promote
\* and promote_to_admin under them, is a value (an outcome or StorageError)
\* whichever of their commands fails, and StorageError is answered 500; the
\* one abort is authenticate_2fa's expect on a user whose row the query
\* reports absent, which is an answer of the data store and not a failure.
C27_StoreFailureReturned ==
    [][\A p \in Procs :
         (pc[p] # "idle" /\ pc'[p] = "idle" /\ loc[p].op \in {"authenticate", "POST /auth/2fa"})
         => /\ out'.op = loc[p].op
            /\ out'.status \in ReturnedValues \cup {"panic"}
            /\ out'.status = "StorageError" => out'.http = 500
            /\ out'.status = "panic" =>
                 /\ pc[p] = "fa_user"
                 /\ ~IsSome(users[loc[p].sess.session_info.user_id])]_vars

\* the delete of promote, reached from authenticate_2fa, has just failed and
\* the request was answered 500 with the pre-authentication record in place
C27_Witness ==
    /\ out.op = "POST /auth/2fa"
    /\ out.status = "StorageError"
    /\ out.http = 500
    /\ Exists(store, KeyOf("PreAuthentication", 2))
    /\ \A t \in Tokens : ~Exists(store, KeyOf("Authenticated", t))

\* the Authenticated records in the store that a promotion of the
\* pre-authentication session t made
PromotedFrom(t) ==
    {k \in Tokens : /\ Exists(store, KeyOf("Authenticated", k))
                    /\ store[KeyOf("Authenticated", k)].made.won >= 1
                    /\ store[KeyOf("Authenticated", k)].made.src = t}

\* C28: At no time do two Authenticated records stand in the store that
\* were promoted from one pre-authentication token, in any interleaving of
\* the authenticate_2fa requests that present the token.
C28_OnePromotionPerRecord ==
    \A t \in Tokens : Cardinality(PromotedFrom(t)) <= 1

\* C29: promote and promote_to_admin go on from their delete to
\* BaseSession::create of the Authenticated record only if the delete found
\* the pre-authentication record of the session in the store.
C29_PromotesOnlyPresentRecord ==
    [][\A p \in Procs :
         (pc[p] = "pr_delete" /\ pc'[p] = "cr_loop" /\ loc'[p].info.kind = "Authenticated")
         => Exists(store, KeyOf("PreAuthentication", loc[p].sess.token))]_vars

\* C30: While the client's counter has not run out, the calls under way hold
\* pairwise distinct post-increment counts, each the number of the call
\* among the client's calls, and a call that is allowed is one of the first
\* AUTH_TIMEOUT_ATTEMPTS - 1: at most four calls are allowed, however the
\* calls overlap.
C30_IncrementIsAtomic ==
    ~clock.expired =>
        /\ \A p \in Procs :
              pc[p] = "bf_expire" =>
                  /\ loc[p].attempts = loc[p].nth
                  /\ loc[p].attempts <= bf.count
                  /\ \A q \in Procs \ {p} :
                        pc[q] = "bf_expire" => loc[q].attempts # loc[p].attempts
        /\ (out.op = "bruteforce_timeout" /\ out.status = "allow")
           => out.nth <= AUTH_TIMEOUT_ATTEMPTS - 1

\* the fifth call, begun while the fourth was under way, has just been
\* denied; the fourth holds the count 4
C30_Witness ==
    /\ ~clock.expired
    /\ out.op = "bruteforce_timeout"
    /\ out.nth = AUTH_TIMEOUT_ATTEMPTS
    /\ out.status = "deny"
    /\ \E p \in Procs : /\ pc[p] = "bf_expire"
                         /\ loc[p].attempts = AUTH_TIMEOUT_ATTEMPTS - 1

\* C31: In every reachable state, also after a call that went no further
\* than its increment, the client's counter key has a time-to-live whenever
\* it exists, so that a lockout ends when the client stops making attempts.
C31_CounterKeyExpires ==
    bf.count > 0 => bf.ttl > 0

\* C32: The step in which login answers an attempt that bruteforce_timeout
\* denied answers 429 straight from the guard and changes no session record,
\* no row of the data store and no token; a login whose count has reached
\* the threshold never goes on to authenticate, whether its password is the
\* user's or not.
C32_GuardBeforeVerification ==
    /\ [][(out'.op = "POST /auth" /\ out'.status = "deny")
          => /\ out'.http = 429
             /\ \E p \in Procs : /\ pc[p] = "lg_expire"
                                  /\ pc'[p] = "idle"
                                  /\ loc[p].attempts >= AUTH_TIMEOUT_ATTEMPTS
             /\ UNCHANGED <<store, dbvars, drawn, issued>>]_vars
    /\ [][\A p \in Procs :
            (pc[p] = "lg_expire" /\ loc[p].attempts >= AUTH_TIMEOUT_ATTEMPTS)
            => pc'[p] \in {"lg_expire", "idle"}]_vars

\* a login with the user's own password has just been denied, and no
\* session has been created for it
C32_Witness ==
    /\ out.op = "POST /auth"
    /\ out.status = "deny"
    /\ out.http = 429
    /\ do_password_authentication(1, out.pw)
    /\ \A key \in Keys : ~Exists(store, key)

\* the result of T::get for a request's session cookie (an absent cookie is
\* answered as a token that does not resolve)
CookieGet(variant, cookie) ==
    IF IsSome(cookie) THEN SessionGet(variant, store, Unwrap(cookie))
    ELSE [status |-> "ok", session |-> None]

RecordOf(info) ==
    [user_id |-> IF info.kind = "Registration" THEN None ELSE Some(info.user_id),
     admin |-> IF info.kind = "Authenticated" THEN Some(info.admin) ELSE None,
     csrf |-> Some(info.csrf),
     email |-> IF info.kind = "Registration" THEN Some(info.email) ELSE None,
     forename |-> IF info.kind = "Registration" THEN Some(info.forename) ELSE None,
     surname |-> IF info.kind = "Registration" THEN Some(info.surname) ELSE None,
     address |-> IF info.kind = "Registration" THEN Some(info.address) ELSE None]

\* C34: When BaseSession::create returns Ok, the token it returns is one no
\* earlier create returned, and the key of the token holds exactly the
\* fields the call wrote.
C34_CreateReturnsOwnRecord ==
    [][(out'.op = "BaseSession::create" /\ out'.status = "Ok")
       => LET key == KeyOf(out'.session.session_info.kind, out'.session.token)
          IN  /\ store'[key].made.won = 1
              /\ \A f \in HashFields :
                    store'[key][f] = RecordOf(out'.session.session_info)[f]]_vars

(***************************************************************************)
(* SpecCompleted: the requests of Spec, each handler running to its        *)
(* return (no request is dropped); records expire as in Spec.              *)
(***************************************************************************)
NextCompleted ==
    \/ \E p \in Procs :
         \/ authenticate(p)
         \/ AuthenticateSecondFactor(p)
         \/ BaseSessionCreate(p)
         \/ StoreAdmin(p)
         \/ StoreCsrf(p)
         \/ StoreRegistrationFields(p)
         \/ SetExpiry(p)
         \/ promote(p)
         \/ promote_to_admin(p)
         \/ Request(p)
         \/ authenticate_2fa(p)
         \/ logout(p)
         \/ signup_init(p)
         \/ AddCredentialStoreUser(p)
         \/ AddCredentialStorePassword(p)
         \/ AddCredentialRollback(p)
         \/ AddCredentialDeleteSession(p)
    \/ \E key \in Keys : Expired(key)

SpecCompleted == Init /\ [][NextCompleted]_vars

\* the payload kind of the typed session a handler holds at a label: the
\* Extension its route's middleware inserted, or the self of promote
HeldKind(label) ==
    CASE label \in {"fa_user", "au_totp", "pr_delete"} -> "PreAuthentication"
      [] label = "lo_delete" -> "Authenticated"
      [] label \in {"ac_store", "ac_pw", "ac_rollback", "ac_sessdel"} -> "Registration"
      [] OTHER -> "none"

\* a typed value wraps a payload of its own kind, with the admin flag of
\* its type
WellTyped(typed) ==
    LET info == typed.session.session_info
    IN  CASE typed.variant = "Customer" -> info.kind = "Authenticated" /\ ~info.admin
          [] typed.variant = "Administrator" -> info.kind = "Authenticated" /\ info.admin
          [] OTHER -> info.kind = typed.variant

\* C35: Every typed session value holds a payload of its own kind: what a
\* get of any variant returns, what every handler holds as its session, what
\* promote and promote_to_admin are about to create and what authenticate,
\* authenticate_2fa and signup_init hand out; the expect of promote and of
\* promote_to_admin never fails.
C35_TypedPayload ==
    /\ [](\A variant \in Variants, t \in Tokens :
            LET got == SessionGet(variant, store, t)
            IN  Resolves(got) =>
                  /\ WellTyped(Unwrap(got.session))
                  /\ variant # "Generic" => Unwrap(got.session).variant = variant)
    /\ [](\A p \in Procs :
            /\ HeldKind(pc[p]) # "none" => loc[p].sess.session_info.kind = HeldKind(pc[p])
            /\ loc[p].caller \in {"promote", "promote_to_admin"} =>
                  /\ loc[p].sess.session_info.kind = "PreAuthentication"
                  /\ pc[p] # "pr_delete" =>
                        WellTyped(Typed(IF loc[p].caller = "promote" THEN "Customer"
                                        ELSE "Administrator",
                                        BaseSession(loc[p].cand, loc[p].info))))
    /\ [](/\ out.status = "Success" => WellTyped(Typed("Customer", out.session))
          /\ out.status = "SuccessAdministrative" =>
                WellTyped(Typed("Administrator", out.session))
          /\ out.status = "Partial" => WellTyped(Typed("PreAuthentication", out.session))
          /\ (out.op = "signup_init" /\ out.status = "Ok") =>
                WellTyped(Typed("Registration", out.session))
          /\ out.status = "next.run" =>
                out.session.session_info.kind = KindOf(RouteSession(out.op))
          /\ out.status # "panic")

\* promote_to_admin has just returned an AdministratorSession that its get
\* returns and CustomerSession::get does not
C35_Witness ==
    /\ out.status = "SuccessAdministrative"
    /\ out.session.session_info.admin
    /\ Resolves(SessionGet("Administrator", store, out.session.token))
    /\ ~Resolves(SessionGet("Customer", store, out.session.token))
    /\ Resolves(SessionGet("Generic", store, out.session.token))

(***************************************************************************)
(* SpecTokenPairs: generate_token on buffers that differ from each other   *)
(* in two neighbouring bytes: every byte is Filler but two neighbours,     *)
(* which hold any of ByteSamples.                                          *)
(***************************************************************************)
NeighbourBuffers ==
    {[i \in 1..TokenBytes |-> IF i = k THEN v ELSE IF i = k + 1 THEN w ELSE Filler]
       : k \in 1..(TokenBytes - 1), v \in ByteSamples, w \in ByteSamples}

InitTokenPairs ==
    /\ token_buf \in NeighbourBuffers
    /\ acc = <<>>
    /\ store = [k \in Keys |-> NoHash]
    /\ users = [u \in UserIds |->
                  IF u = 1 THEN Some(UserRow(EmailA, "n", "n", "n", "Customer")) ELSE None]
    /\ password = [u \in UserIds |-> IF u = 1 THEN Some("pw8") ELSE None]
    /\ totp = [u \in UserIds |-> FALSE]
    /\ lastId = 1
    /\ pc = [p \in Procs |-> "idle"]
    /\ loc = [p \in Procs |-> Idle]
    /\ out = NoOut
    /\ drawn = 0
    /\ issued = {}
    /\ arrived = 0
    /\ bf = NoCounter
    /\ clock = NoHistory

SpecTokenPairs == InitTokenPairs /\ [][NextToken]_vars

\* the string the fold of generate_token builds from the bytes buf
RECURSIVE TokenString(_)
TokenString(buf) ==
    IF buf = <<>> THEN <<>> ELSE LowerHex(Head(buf)) \o TokenString(Tail(buf))

\* C36: Two different buffers never encode to one token: the string the
\* fold has built is the string of one buffer only.
C36_EncodingInjective ==
    (token_buf = <<>> /\ acc # <<>>) =>
        Cardinality({buf \in NeighbourBuffers : TokenString(buf) = acc}) <= 1

\* C37: The step in which add_credential_and_commit returns
\* PasswordTooShort or PasswordTooLong leaves the primary data store as it
\* was, with no user record created, and the registration session of the
\* request still resolves.
C37_RejectedPasswordChangesNothing ==
    [][(out'.op = "POST /onboarding/credential"
          /\ out'.status \in {"PasswordTooShort", "PasswordTooLong"})
       => /\ UNCHANGED <<users, password, totp>>
          /\ Resolves(RegistrationSessionGet(store', out'.old.token))]_vars

(***************************************************************************)
(* Account deletion: DELETE /users/self and DELETE /users/{user_id}, with  *)
(* the second factor of a login in progress and an administrator's         *)
(* session beside them.                                                    *)
(***************************************************************************)
UsersRoutes == {"DELETE /users/self", "DELETE /users/{user_id}"}

\* the session type T the middleware of each users router is instantiated with
UsersRouteSession(route) ==
    CASE route = "DELETE /users/self" -> "Generic"
      [] route = "DELETE /users/{user_id}" -> "Administrator"

\* where the route's handler starts
UsersRouteHandler(route) ==
    CASE route = "DELETE /users/self" -> "ds_check"
      [] route = "DELETE /users/{user_id}" -> "du_check"

\* A request to one of the two deleting routes: session_middleware, and the
\* entry of the handler with the session as its Extension and, for
\* /users/{user_id}, the id of the path.
UsersRequest(p) ==
    /\ Arrives(p)
    /\ \E route \in UsersRoutes, cookie \in {None} \cup {Some(c.session) : c \in issued} :
       \E hdr \in {NoHeader, NonAsciiHeader, AsciiHeader(0)}
                     \cup {AsciiHeader(c.session_csrf) : c \in issued} :
         LET got == IF IsSome(cookie)
                    THEN SessionGet(UsersRouteSession(route), store, Unwrap(cookie))
                    ELSE [status |-> "ok", session |-> None]
             status == session_middleware(got, hdr)
             typed == Unwrap(got.session)
         IN  IF status # 0
             THEN Return(p, IF IsSome(got.session)
                            THEN [NoOut EXCEPT !.op = route, !.status = "rejected",
                                               !.http = status, !.hdr = hdr,
                                               !.session = typed.session]
                            ELSE [NoOut EXCEPT !.op = route, !.status = "rejected",
                                               !.http = status])
             ELSE \E user_id \in IF route = "DELETE /users/self"
                                 THEN {typed.session.session_info.user_id}
                                 ELSE UserIds :
                    /\ pc' = [pc EXCEPT ![p] = UsersRouteHandler(route)]
                    /\ loc' = [loc EXCEPT ![p] =
                                 [Idle EXCEPT !.op = route, !.sess = typed.session,
                                              !.uid = user_id]]
                    /\ out' = [NoOut EXCEPT !.op = route, !.status = "next.run",
                                            !.hdr = hdr, !.session = typed.session]
    /\ UNCHANGED <<store, dbvars, drawn, issued, guardvars, rngvars>>

\* AppUser::search with role: Some(Administrator)
Administrators ==
    {u \in UserIds : IsSome(users[u]) /\ Unwrap(users[u]).role = "Administrator"}

\* services::users::delete_user: the row is selected, UserNonExistent (404)
\* when there is none, and deleted otherwise
UsersDeleteUser(p, user_id) ==
    IF ~IsSome(users[user_id])
    THEN /\ Return(p, [Outcome(p, "UserNonExistent", 404) EXCEPT !.old = loc[p].sess])
         /\ UNCHANGED dbvars
    ELSE /\ Return(p, [Outcome(p, "Ok", 200) EXCEPT !.old = loc[p].sess])
         /\ AppUserDelete(user_id)

\* routes::users::delete_self: a sole administrator is refused, anyone else
\* is deleted from the primary data store; the two cookies are removed from
\* the response, and the session store is not called
delete_self(p) ==
    /\ pc[p] = "ds_check"
    /\ LET me == loc[p].sess.session_info.user_id
       IN  IF loc[p].sess.session_info.admin /\ Cardinality(Administrators) = 1
           THEN /\ Return(p, [Outcome(p, "Forbidden", 403) EXCEPT !.old = loc[p].sess])
                /\ UNCHANGED dbvars
           ELSE UsersDeleteUser(p, me)
    /\ UNCHANGED <<store, drawn, issued, arrived, guardvars, rngvars>>

\* routes::users::delete_user: refused for the sole administrator's own id,
\* 404 for an id without a row, refused for an administrator's id, and the
\* row is deleted otherwise; the session store is not called
delete_user(p) ==
    /\ pc[p] = "du_check"
    /\ LET user_id == loc[p].uid
           me == loc[p].sess.session_info.user_id
       IN  IF user_id = me /\ Cardinality(Administrators) = 1
           THEN /\ Return(p, [Outcome(p, "Forbidden", 403) EXCEPT !.old = loc[p].sess])
                /\ UNCHANGED dbvars
           ELSE IF ~IsSome(users[user_id])
           THEN /\ Return(p, [Outcome(p, "NotFound", 404) EXCEPT !.old = loc[p].sess])
                /\ UNCHANGED dbvars
           ELSE IF Unwrap(users[user_id]).role = "Administrator"
           THEN /\ Return(p, [Outcome(p, "Forbidden", 403) EXCEPT !.old = loc[p].sess])
                /\ UNCHANGED dbvars
           ELSE UsersDeleteUser(p, user_id)
    /\ UNCHANGED <<store, drawn, issued, arrived, guardvars, rngvars>>

\* User 1 (either role, with a second factor) has passed the password check
\* and holds a pre-authentication session; user 2, an administrator without
\* a second factor, is logged in (the pre-authentication record that login
\* went through is gone and no client holds its token).
InitDeletion ==
    /\ \E role \in Roles :
         users = [u \in UserIds |->
                    CASE u = 1 -> Some(UserRow(EmailA, "n", "n", "n", role))
                      [] u = 2 -> Some(UserRow(EmailBA, "n", "n", "n", "Administrator"))
                      [] OTHER -> None]
    /\ store = [k \in Keys |->
                  CASE k = KeyOf("Authenticated", 2) ->
                         [NoHash EXCEPT
                            !.user_id = Some(2), !.csrf = Some(1), !.admin = Some(TRUE),
                            !.ttl = ADMIN_SESSION_TIMEOUT,
                            !.made = [NotMade EXCEPT
                                        !.kind = "Authenticated", !.via = "promote_to_admin",
                                        !.won = 1]]
                    [] k = KeyOf("PreAuthentication", 4) ->
                         [NoHash EXCEPT
                            !.user_id = Some(1), !.csrf = Some(3),
                            !.ttl = PREAUTH_SESSION_TIMEOUT,
                            !.made = [NotMade EXCEPT
                                        !.kind = "PreAuthentication",
                                        !.via = "PreAuthenticationSession::create",
                                        !.totp0 = TRUE, !.won = 1]]
                    [] OTHER -> NoHash]
    /\ password = [u \in UserIds |->
                     CASE u = 1 -> Some("pw8") [] u = 2 -> Some("pw9") [] OTHER -> None]
    /\ totp = [u \in UserIds |-> u = 1]
    /\ lastId = 2
    /\ pc = [p \in Procs |-> "idle"]
    /\ loc = [p \in Procs |-> Idle]
    /\ out = NoOut
    /\ drawn = 4
    /\ issued = {[session |-> 2, session_csrf |-> 1], [session |-> 4, session_csrf |-> 3]}
    /\ arrived = 0
    /\ bf = NoCounter
    /\ clock = NoHistory
    /\ token_buf = <<>>
    /\ acc = <<>>

NextDeletion ==
    \/ \E p \in Procs :
         \/ UsersRequest(p)
         \/ delete_self(p)
         \/ delete_user(p)
         \/ Request(p)
         \/ authenticate_2fa(p)
         \/ promote(p)
         \/ promote_to_admin(p)
         \/ BaseSessionCreate(p)
         \/ StoreAdmin(p)
         \/ StoreCsrf(p)
         \/ SetExpiry(p)
         \/ logout(p)
    \/ \E key \in Keys : Expired(key)

SpecDeletion == InitDeletion /\ [][NextDeletion]_vars

\* the user's row has been deleted from the primary data store
Deleted(u) == u <= lastId /\ ~IsSome(users[u])

\* C38: Once the deletion of a user's account (delete_self, or delete_user by
\* an administrator) has completed, no Authenticated and no PreAuthentication
\* token resolves to a session that carries the deleted user's id.
C38_DeletionInvalidatesSessions ==
    \A u \in UserIds, t \in Tokens, variant \in {"PreAuthentication", "Generic"} :
        Deleted(u) =>
            \A typed \in SessionGet(variant, store, t).session :
                typed.session.session_info.user_id # u

\* what authenticate_2fa returns: AuthenticationOutcome2fa or a storage error
ReturnedValues2fa == {"Success", "SuccessAdministrative", "Failure", "StorageError"}

\* C39: For every pre-authentication session that resolved, authenticate_2fa
\* returns Success, SuccessAdministrative, Failure or a storage error, also
\* when the session's user was removed from the primary data store after the
\* session was created: the request is never aborted.
C39_SecondFactorReturnsForDeletedUser ==
    (out.op = "POST /auth/2fa" /\ out.status \notin Middleware) =>
        out.status \in ReturnedValues2fa
====
